---- MODULE Spec2Model ----
(***************************************************************************)
(* A model of the market-briefing pipeline of ai_market_aggregator.py      *)
(* (class AIMarketAggregator): the quote snapshot fetcher                  *)
(* (fetch_market_data), the feed ingester (parse_rss_feed and              *)
(* fetch_all_rss_feeds).                                                   *)
(*                                                                         *)
(* Text that the code scans with regular expressions (the feed document,   *)
(* titles, descriptions, dates) is a sequence of one-character strings, so *)
(* that the scans are modelled character by character.  Names that the     *)
(* code only copies (symbols, source names, error texts) are strings.      *)
(***************************************************************************)
EXTENDS Integers, Sequences, FiniteSets, TLC

VARIABLES
    mode,            \* which routine this behaviour exercises
    \* ---- fetch_market_data ----
    symbols,         \* self.symbols
    api_key,         \* os.getenv('FINNHUB_API_KEY')
    qpc,             \* position in fetch_market_data
    qi,              \* number of symbols the loop has finished
    market_results,  \* the local list market_results
    quote_log,       \* the quote requests issued so far (symbol of each)
    quote_seen,      \* what the quote source did for each request
    snapshot,        \* the returned value of fetch_market_data
    \* ---- parse_rss_feed (one call) ----
    ppc,             \* position of the single parse_rss_feed call
    p_source,        \* argument source_name
    p_feed,          \* what the feed source holds: the document's make-up
    p_response,      \* what requests.get gives back (or raises)
    p_result,        \* the returned (status, articles)
    \* ---- fetch_all_rss_feeds ----
    rss_feeds,       \* self.rss_feeds
    fpc,             \* position in fetch_all_rss_feeds
    fi,              \* number of sources the loop has finished
    all_articles,    \* the local list all_articles
    feed_statuses,   \* the local list feed_statuses
    feed_log,        \* the feed requests issued so far, with what came back
    f_returned,      \* the value fetch_all_rss_feeds returned
    \* ---- get_ai_analysis ----
    openai_api_key,    \* os.getenv('OPENAI_API_KEY')
    anthropic_api_key, \* os.getenv('ANTHROPIC_API_KEY')
    apc,             \* position in get_ai_analysis
    a_prompt,        \* argument prompt
    a_market_data,   \* argument market_data
    analysis,        \* the local variable analysis
    provider_log,    \* the provider requests issued so far, with what came back
    a_result,        \* what get_ai_analysis returned (or raised)
    \* ---- convert_markdown_to_html (one call) ----
    hpc,             \* position of the single convert_markdown_to_html call
    h_text,          \* argument text
    h_scan,          \* the lines before and after the line scan
    h_html,          \* the returned string
    \* ---- run ----
    rpc,             \* position in run
    run_market_data, \* run's market_data, the snapshot string
    run_articles,    \* run's articles
    run_feed_statuses, \* run's feed_statuses
    run_prompt,      \* run's prompt
    ai_analysis,     \* run's ai_analysis
    analysis_source, \* run's analysis_source
    html_content,    \* run's html_content
    mail_env,        \* the mail settings of the environment
    email_sent,      \* run's email_sent
    mail_log,        \* the SMTP sessions opened, in order
    run_calls,       \* the stages run has called, in order
    run_result,      \* "running", "returned", or "raised"
    summary,         \* the execution summary printed at the end
    \* ---- prepare_ai_prompt_enhanced ----
    prompt_day,      \* the day that datetime.now() gave
    prompt_text,     \* the returned string
    \* ---- RealDataAINewsletterBot.run_daily_summary ----
    clock,           \* the time that the latest datetime.now() gave
    banner_type,     \* summary_type of run_daily_summary
    prompt_kind,     \* the prompt that generate_dual_summary built
    dual_summary,    \* what generate_dual_summary returned
    subject,         \* the subject line that send_email_summary wrote
    \* ---- CleanMarketAggregator.fetch_all_rss_feeds ----
    rss_results,     \* the local list rss_results
    successful_feeds, \* the local counter successful_feeds
    total_articles,  \* the local counter total_articles
    rss_report       \* the returned string

qvars == <<symbols, api_key, qpc, qi, market_results, quote_log, quote_seen, snapshot>>
pvars == <<ppc, p_source, p_feed, p_response, p_result>>
fvars == <<rss_feeds, fpc, fi, all_articles, feed_statuses, feed_log, f_returned>>
avars == <<openai_api_key, anthropic_api_key, apc, a_prompt, a_market_data, analysis,
           provider_log, a_result>>
hvars == <<hpc, h_text, h_scan, h_html>>
rvars == <<rpc, run_market_data, run_articles, run_feed_statuses, run_prompt, ai_analysis,
           analysis_source, html_content, mail_env, email_sent, mail_log, run_calls,
           run_result, summary>>
prvars == <<prompt_day, prompt_text>>
nvars == <<clock, banner_type, prompt_kind, dual_summary, subject>>
cvars == <<rss_results, successful_feeds, total_articles, rss_report>>
vars == <<mode, qvars, pvars, fvars, avars, hvars, rvars, prvars, nvars, cvars>>

(***************************************************************************)
(* Bounds of the model.                                                    *)
(***************************************************************************)
MaxSymbols == 3      \* longest symbol list
MaxEntries == 6      \* most entry blocks in a generated feed document
MaxMixed == 2        \* most blocks in a document that mixes item and entry
MaxSources == 3      \* longest feed configuration
MaxLines == 4        \* most lines of a generated analysis body

Min(a, b) == IF a < b THEN a ELSE b

(***************************************************************************)
(* Quote Snapshot Fetcher: AIMarketAggregator.fetch_market_data            *)
(***************************************************************************)

\* self.symbols as set by __init__
ConfiguredSymbols == <<"QQQ", "SPY", "UUP", "IWM", "GLD", "COINBASE:BTCUSD", "MP">>

\* The symbol lists the model runs the fetcher on: the leading symbols of the
\* configured list, the empty list included.
SymbolLists ==
    { SubSeq(ConfiguredSymbols, 1, n) : n \in 0..Min(MaxSymbols, Len(ConfiguredSymbols)) }

\* os.getenv('FINNHUB_API_KEY'): unset, set to the empty string, or set
ApiKeys == {"None", "", "finnhub-key"}

\* A slip: `if api_key is None`, which lets the empty string through
NoKeyUnsetOnly(k) == k = "None"

\* `not api_key`
NoKey(k) == k = "None" \/ k = ""

\* A JSON value of the quote response: a number (in cents), null, or the key
\* is absent from the object.
Num(n) == [t |-> "num", v |-> n]
Null == [t |-> "null", v |-> 0]
Absent == [t |-> "absent", v |-> 0]

\* The quote objects the quote source may answer with.
QuoteData ==
    [ c : {Absent, Null, Num(0), Num(10000)},
      d : {Absent, Null, Num(-100), Num(0), Num(100)},
      dp : {Absent, Num(100)} ]

\* What one quote request may do: requests.get raises, response.json() raises
\* on a body that is not JSON, the body is the JSON value null (`'c' in data`
\* then raises a TypeError), or a JSON object comes back.
QuoteOutcomes ==
    { [kind |-> "raise", err |-> e, data |-> [c |-> Absent, d |-> Absent, dp |-> Absent]]
        : e \in {"Read timed out", "Connection refused"} }
    \cup { [kind |-> "badjson", err |-> "Expecting value",
            data |-> [c |-> Absent, d |-> Absent, dp |-> Absent]],
           [kind |-> "badshape", err |-> "argument of type 'NoneType' is not iterable",
            data |-> [c |-> Absent, d |-> Absent, dp |-> Absent]] }
    \cup { [kind |-> "json", err |-> "", data |-> q] : q \in QuoteData }

NoOutcome == [kind |-> "none", err |-> "", data |-> [c |-> Absent, d |-> Absent, dp |-> Absent]]

\* One line of the snapshot.  Lines are records, the fields of the f-string
\* that renders them.
Line(kind, symbol, current, direction, change, change_pct, text) ==
    [ kind |-> kind, symbol |-> symbol, current |-> current, direction |-> direction,
      change |-> change, change_pct |-> change_pct, text |-> text ]

TextLine(kind, text) == Line(kind, "", 0, "", 0, 0, text)

\* "No Finnhub API key configured", the whole return value without a key
NoKeyLine == TextLine("nokey", "No Finnhub API key configured")
BannerLine == TextLine("banner", "CURRENT MARKET DATA")
RuleLine == TextLine("rule", "=" )
StampLine(now) == Line("stamp", "", now, "", 0, 0, "Data retrieved")

\* data.get(k, 0) or 0
GetOr0(data, k) == IF data[k].t = "num" THEN data[k].v ELSE 0

\* A slip: `change > 0`, which marks an unchanged price as down
DirectionStrict(change) == IF change > 0 THEN "GREEN_CIRCLE" ELSE "RED_CIRCLE"

\* direction = "GREEN_CIRCLE" if change >= 0 else "RED_CIRCLE"
Direction(change) == IF change >= 0 THEN "GREEN_CIRCLE" ELSE "RED_CIRCLE"

\* 'c' in data and data['c'] is not None
HasPrice(data) == data.c.t # "absent" /\ data.c.t # "null"

\* current = float(data['c']); change = ...; change_pct = ...; the price row
PriceRow(symbol, data) ==
    Line("price", symbol, data.c.v, Direction(GetOr0(data, "d")),
         GetOr0(data, "d"), GetOr0(data, "dp"), "")

NoDataRow(symbol) == Line("nodata", symbol, 0, "", 0, 0, "No data available")

ErrorRow(symbol, err) == Line("error", symbol, 0, "", 0, 0, err)

\* What one pass of the loop does: the rows it appends to market_results,
\* or an exception that leaves the function.
Appends(rows) == [raised |-> FALSE, rows |-> rows]
\* (no pass of the code's loop does this: the try block covers the whole body)
Propagates == [raised |-> TRUE, rows |-> <<>>]

\* except Exception as e: the error becomes the symbol's row
QuoteExcept(symbol, err) == Appends(<<ErrorRow(symbol, err)>>)

\* A slip: a symbol without data is passed over without a row
QuoteNoDataSkipped(symbol) == Appends(<<>>)

\* else: market_results.append("... | No data available")
QuoteNoData(symbol) == Appends(<<NoDataRow(symbol)>>)

\* The body of the loop for one symbol.
QuoteIteration(symbol, o) ==
    IF o.kind \in {"raise", "badjson", "badshape"}
    THEN QuoteExcept(symbol, o.err)
    ELSE IF HasPrice(o.data)
         THEN Appends(<<PriceRow(symbol, o.data)>>)
         ELSE QuoteNoData(symbol)

\* The clock read by datetime.now()
Clock == {1, 2}

Returned(lines) == [raised |-> FALSE, lines |-> lines]
Raised == [raised |-> TRUE, lines |-> <<>>]
NotReturned == [raised |-> FALSE, lines |-> <<TextLine("pending", "")>>]

InitQuote ==
    /\ symbols \in SymbolLists
    /\ api_key \in ApiKeys
    /\ qpc = "start"
    /\ qi = 0
    /\ market_results = <<>>
    /\ quote_log = <<>>
    /\ quote_seen = NoOutcome
    /\ snapshot = NotReturned

\* if not api_key: return the explanatory line
FetchNoKey ==
    /\ mode = "quote" /\ qpc = "start"
    /\ NoKey(api_key)
    /\ snapshot' = Returned(<<NoKeyLine>>)
    /\ qpc' = "done"
    /\ UNCHANGED <<symbols, api_key, qi, market_results, quote_log, quote_seen>>
    /\ UNCHANGED <<mode, pvars, fvars, avars, hvars, rvars, prvars, nvars, cvars>>

\* market_results = [banner, rule]
FetchBegin ==
    /\ mode = "quote" /\ qpc = "start"
    /\ ~NoKey(api_key)
    /\ market_results' = <<BannerLine, RuleLine>>
    /\ qpc' = "loop"
    /\ UNCHANGED <<symbols, api_key, qi, quote_log, quote_seen, snapshot>>
    /\ UNCHANGED <<mode, pvars, fvars, avars, hvars, rvars, prvars, nvars, cvars>>

\* One pass of `for symbol in self.symbols`: one request, one row.
FetchQuote ==
    /\ mode = "quote" /\ qpc = "loop"
    /\ qi < Len(symbols)
    /\ \E o \in QuoteOutcomes :
        \E r \in { QuoteIteration(symbols[qi + 1], o) } :
            /\ quote_log' = Append(quote_log, symbols[qi + 1])
            /\ quote_seen' = o
            /\ IF r.raised
               THEN /\ snapshot' = Raised
                    /\ qpc' = "done"
                    /\ UNCHANGED <<market_results, qi>>
               ELSE /\ market_results' = market_results \o r.rows
                    /\ qi' = qi + 1
                    /\ UNCHANGED <<snapshot, qpc>>
    /\ UNCHANGED <<symbols, api_key>>
    /\ UNCHANGED <<mode, pvars, fvars, avars, hvars, rvars, prvars, nvars, cvars>>

\* After the loop: the closing rule, the time stamp, "\n".join
FetchFinish ==
    /\ mode = "quote" /\ qpc = "loop"
    /\ qi = Len(symbols)
    /\ \E now \in Clock :
        /\ market_results' = market_results \o <<RuleLine, StampLine(now)>>
        /\ snapshot' = Returned(market_results')
    /\ qpc' = "done"
    /\ UNCHANGED <<symbols, api_key, qi, quote_log, quote_seen>>
    /\ UNCHANGED <<mode, pvars, fvars, avars, hvars, rvars, prvars, nvars, cvars>>



(***************************************************************************)
(* Text: sequences of one-character strings, and the scans that the        *)
(* regular expressions of parse_rss_feed perform on them.                  *)
(***************************************************************************)

UpperCase == <<"A", "B", "C", "D", "E", "F", "G", "H", "I", "J", "K", "L", "M",
               "N", "O", "P", "Q", "R", "S", "T", "U", "V", "W", "X", "Y", "Z">>
LowerCase == <<"a", "b", "c", "d", "e", "f", "g", "h", "i", "j", "k", "l", "m",
               "n", "o", "p", "q", "r", "s", "t", "u", "v", "w", "x", "y", "z">>
UpperSet == { UpperCase[i] : i \in 1..Len(UpperCase) }
LowerMap == [ c \in UpperSet |-> LowerCase[CHOOSE i \in 1..Len(UpperCase) : UpperCase[i] = c] ]

\* re.IGNORECASE: characters are compared after folding to lower case
Lower(c) == IF c \in UpperSet THEN LowerMap[c] ELSE c

\* The literal lit (given in lower case) stands at position i of s.
MatchAt(s, i, lit) ==
    /\ i >= 1
    /\ i + Len(lit) - 1 <= Len(s)
    /\ \A k \in 1..Len(lit) : Lower(s[i + k - 1]) = lit[k]

\* S's only element: { e(x) : x \in {v} } names the value v as x inside e,
\* so that v is computed once.
The(S) == CHOOSE x \in S : TRUE

\* The least element of a set of numbers; 0 for the empty set.
MinOr0(S) == IF S = {} THEN 0 ELSE CHOOSE x \in S : \A y \in S : x <= y
MaxOr0(S) == IF S = {} THEN 0 ELSE CHOOSE x \in S : \A y \in S : y <= x
Least(S0) == The({ MinOr0(S) : S \in {S0} })
Greatest(S0) == The({ MaxOr0(S) : S \in {S0} })

\* The first position >= from that holds the character c; 0 when there is none.
FindChar(s, from, c) == Least({ j \in from..Len(s) : s[j] = c })

\* `$` without re.MULTILINE: the end of the text, or just before a final newline
AtEnd(s, i) == i = Len(s) + 1 \/ (i = Len(s) /\ s[i] = "\n")

\* (?:<!$$CDATA\[)? at position i: the length it consumes.  The group asks
\* for the end of the text and then for "CDATA[".
CdataOpenLen(s, i) ==
    IF MatchAt(s, i, <<"<", "!">>) /\ AtEnd(s, i + 2)
       /\ MatchAt(s, i + 2, <<"c", "d", "a", "t", "a", "[">>)
    THEN Len(<<"<", "!", "c", "d", "a", "t", "a", "[">>) ELSE 0

\* (?:$$\]>)? at position i: the length it consumes.
CdataCloseLen(s, i) ==
    IF AtEnd(s, i) /\ MatchAt(s, i, <<"]", ">">>) THEN Len(<<"]", ">">>) ELSE 0

OpenOf(name) == <<"<">> \o name
CloseOf(name) == <<"<", "/">> \o name \o <<">">>

NoMatch == [found |-> FALSE, from |-> 0, to |-> 0, next |-> 0]

\* The closing part  CLOSE? </name>  at position e: the length it consumes,
\* 0 when it does not match there.
ClosingLen(s, e, name, cdata) ==
    IF cdata /\ CdataCloseLen(s, e) > 0 /\ MatchAt(s, e + CdataCloseLen(s, e), CloseOf(name))
    THEN CdataCloseLen(s, e) + Len(name) + Len(<<"<", "/", ">">>)
    ELSE IF MatchAt(s, e, CloseOf(name)) THEN Len(name) + Len(<<"<", "/", ">">>)
    ELSE 0

\* The pattern  <name[^>]*> OPEN? (.*?) CLOSE? </name>  with "<name" at p
\* and the ">" that ends the opening tag at g (0: there is none).  cdata
\* says whether the pattern has the two optional CDATA groups, dotall
\* whether `.` also matches a newline.  from..to is group 1.
MatchBody(s, g, name, cdata, dotall) ==
    IF g = 0 THEN NoMatch
    ELSE The({
        \* the lazy group grows until the rest of the pattern matches
        The({ IF e = 0 THEN NoMatch
              ELSE IF ~dotall /\ \E k \in b..(e - 1) : s[k] = "\n" THEN NoMatch
              ELSE [found |-> TRUE, from |-> b, to |-> e - 1,
                    next |-> e + ClosingLen(s, e, name, cdata)]
              : e \in { Least({ x \in b..(Len(s) + 1) : ClosingLen(s, x, name, cdata) > 0 }) } })
        : b \in { g + 1 + (IF cdata THEN CdataOpenLen(s, g + 1) ELSE 0) } })

MatchElementAt(s, p, name, cdata, dotall) ==
    IF ~MatchAt(s, p, OpenOf(name)) THEN NoMatch
    ELSE MatchBody(s, FindChar(s, p + Len(name) + 1, ">"), name, cdata, dotall)

\* re.search from position start: the leftmost position where the pattern
\* matches.
MatchElementIn(s, start, name, cdata, dotall) ==
    The({ IF p = 0 THEN NoMatch ELSE MatchElementAt(s, p, name, cdata, dotall)
          : p \in { Least({ q \in start..Len(s) :
                              MatchElementAt(s, q, name, cdata, dotall).found }) } })

MatchElement(s0, start0, name, cdata, dotall) ==
    The({ MatchElementIn(s, start, name, cdata, dotall) : s \in {s0}, start \in {start0} })

Group1(s, m) == SubSeq(s, m.from, m.to)

\* re.findall(r'<name[^>]*>(.*?)</name>', s, re.DOTALL | re.IGNORECASE):
\* group 1 of the successive non-overlapping matches, left to right.
RECURSIVE FindAllFrom(_, _, _)
FindAllFrom(s, start, name) ==
    The({ IF ~m.found THEN <<>>
          ELSE <<Group1(s, m)>> \o FindAllFrom(s, m.next, name)
          : m \in { MatchElementIn(s, start, name, FALSE, TRUE) } })

FindAll(s0, name) == The({ FindAllFrom(s, 1, name) : s \in {s0} })

\* re.sub(r'<[^>]+>', '', s): every leftmost  "<", one or more characters
\* other than ">", ">"  is removed.
RECURSIVE StripTagsFrom(_, _)
StripTagsFrom(s, start) ==
    The({ IF p = 0 THEN SubSeq(s, start, Len(s))
          ELSE The({ SubSeq(s, start, p - 1) \o StripTagsFrom(s, g + 1)
                     : g \in { FindChar(s, p + 2, ">") } })
          : p \in { Least({ q \in start..Len(s) :
                              /\ s[q] = "<"
                              /\ q + 1 <= Len(s) /\ s[q + 1] # ">"
                              /\ FindChar(s, q + 2, ">") # 0 }) } })

StripTags(s0) == The({ StripTagsFrom(s, 1) : s \in {s0} })

Whitespace == {" ", "\n", "\t", "\r"}

\* str.strip()
Strip(s0) ==
    The({ The({ IF a = 0 THEN <<>> ELSE SubSeq(s, a, b)
                : a \in { Least({ i \in 1..Len(s) : s[i] \notin Whitespace }) },
                  b \in { Greatest({ i \in 1..Len(s) : s[i] \notin Whitespace }) } })
          : s \in {s0} })

(***************************************************************************)
(* Feed Ingester: AIMarketAggregator.parse_rss_feed                        *)
(***************************************************************************)

kItem == <<"i", "t", "e", "m">>
kEntry == <<"e", "n", "t", "r", "y">>
kTitle == <<"t", "i", "t", "l", "e">>
kDescription == <<"d", "e", "s", "c", "r", "i", "p", "t", "i", "o", "n">>
kSummary == <<"s", "u", "m", "m", "a", "r", "y">>
kContent == <<"c", "o", "n", "t", "e", "n", "t">>
kPubDate == <<"p", "u", "b", "d", "a", "t", "e">>
kPublished == <<"p", "u", "b", "l", "i", "s", "h", "e", "d">>
kUpdated == <<"u", "p", "d", "a", "t", "e", "d">>

\* A slip: the candidates tried in the opposite order
DescPatternsContentFirst == <<kContent, kSummary, kDescription>>

\* desc_patterns and date_patterns, in the order the code tries them
DescPatterns == <<kDescription, kSummary, kContent>>
DatePatterns == <<kPubDate, kPublished, kUpdated>>

NoTitle == <<"N", "o", " ", "t", "i", "t", "l", "e">>
NoDate == <<"N", "o", " ", "d", "a", "t", "e">>
Ellipsis == <<".", ".", ".">>

\* items[:5]
ItemCap == 5
\* description[:300] ... if len(description) > 300
DescLimit == 300

Take(seq, n) == SubSeq(seq, 1, Min(n, Len(seq)))

\* A slip: `>=`, which also cuts a description of exactly 300 characters
TruncateAtLimit(description0) ==
    The({ IF Len(description) >= DescLimit
          THEN SubSeq(description, 1, DescLimit) \o Ellipsis
          ELSE description
          : description \in {description0} })

\* description[:300] + "..." if len(description) > 300 else description
Truncate(description0) ==
    The({ IF Len(description) > DescLimit
          THEN SubSeq(description, 1, DescLimit) \o Ellipsis
          ELSE description
          : description \in {description0} })

\* title = "No title"; if title_match: strip, then remove the tags
ExtractTitle(item) ==
    The({ IF title_match.found
          THEN StripTags(Strip(Group1(item, title_match)))
          ELSE NoTitle
          : title_match \in { MatchElement(item, 1, kTitle, TRUE, TRUE) } })

\* The first pattern of desc_patterns that matches decides; then `break`.
RECURSIVE ExtractDescriptionFrom(_, _)
ExtractDescriptionFrom(item, k) ==
    IF k > Len(DescPatterns) THEN <<>>
    ELSE The({ IF desc_match.found
               THEN Truncate(StripTags(Strip(Group1(item, desc_match))))
               ELSE ExtractDescriptionFrom(item, k + 1)
               : desc_match \in { MatchElement(item, 1, DescPatterns[k], TRUE, TRUE) } })

ExtractDescription(item) == ExtractDescriptionFrom(item, 1)

\* The first pattern of date_patterns that matches decides (no re.DOTALL).
RECURSIVE ExtractDateFrom(_, _)
ExtractDateFrom(item, k) ==
    IF k > Len(DatePatterns) THEN NoDate
    ELSE The({ IF date_match.found
               THEN Strip(Group1(item, date_match))
               ELSE ExtractDateFrom(item, k + 1)
               : date_match \in { MatchElement(item, 1, DatePatterns[k], FALSE, FALSE) } })

ExtractDate(item) == ExtractDateFrom(item, 1)

Article(title, description, date, source) ==
    [title |-> title, description |-> description, date |-> date, source |-> source]

\* if title and title != "No title"
Qualifies(title) == title # <<>> /\ title # NoTitle

\* The loop `for item in items[:5]` over the entries it is given.
\* One pass of the loop: the article appended for `item`, if any
ArticleOf(item0, source_name) ==
    The({ IF Qualifies(title)
          THEN <<Article(title, ExtractDescription(item), ExtractDate(item), source_name)>>
          ELSE <<>>
          : item \in {item0}, title \in {ExtractTitle(item0)} })

RECURSIVE ArticlesFrom(_, _, _)
ArticlesFrom(items, k, source_name) ==
    IF k > Len(items) THEN <<>>
    ELSE ArticleOf(items[k], source_name) \o ArticlesFrom(items, k + 1, source_name)

ArticlesOf(items0, source_name) ==
    The({ ArticlesFrom(items, 1, source_name) : items \in {items0} })

\* A slip: the loop runs over `items`, without the cut
Uncapped(items) == items

\* The entries the article loop runs over: items[:5]
Capped(items) == Take(items, ItemCap)

\* A status line: the parts of the f-string that renders it.
Status(mark, source_name, detail, n, err) ==
    [mark |-> mark, source |-> source_name, detail |-> detail, n |-> n, err |-> err]

StatusHttp(source_name, status_code) ==
    Status("CROSS_MARK", source_name, "HTTP", status_code, "")
StatusNoArticles(source_name) ==
    Status("WARNING", source_name, "No articles found in feed", 0, "")
StatusOk(source_name, n) ==
    Status("CHECK_MARK", source_name, "articles", n, "")
StatusError(source_name, err) ==
    Status("CROSS_MARK", source_name, "Error", 0, err)

Result(status, articles) == [status |-> status, articles |-> articles]

\* A slip: the entry regions are always added to the item regions
ExtractItemsAndEntries(content) == FindAll(content, kItem) \o FindAll(content, kEntry)

\* items = findall(item) or, when that is empty, findall(entry)
ExtractItems(content) ==
    The({ IF items # <<>> THEN items ELSE FindAll(content, kEntry)
          : items \in { FindAll(content, kItem) } })

\* What requests.get(feed_url) does: it raises, or a response comes back.
RaisedResponse(err) == [kind |-> "raise", err |-> err, status_code |-> 0, text |-> <<>>]
HttpResponse(status_code, text) ==
    [kind |-> "http", err |-> "", status_code |-> status_code, text |-> text]

\* A slip: the status code of the response is not looked at
ParseAnyStatus(source_name, response) ==
    IF response.kind = "raise"
    THEN Result(StatusError(source_name, response.err), <<>>)
    ELSE The({ IF items = <<>>
               THEN Result(StatusNoArticles(source_name), <<>>)
               ELSE The({ Result(StatusOk(source_name, Len(articles)), articles)
                          : articles \in { ArticlesOf(Capped(items), source_name) } })
               : items \in { ExtractItems(response.text) } })

\* The body of parse_rss_feed's try block, and its except clause
ParseResponse(source_name, response) ==
    IF response.kind = "raise"
    THEN Result(StatusError(source_name, response.err), <<>>)
    ELSE IF response.status_code # 200
    THEN Result(StatusHttp(source_name, response.status_code), <<>>)
    ELSE The({ IF items = <<>>
               THEN Result(StatusNoArticles(source_name), <<>>)
               ELSE The({ Result(StatusOk(source_name, Len(articles)), articles)
                          : articles \in { ArticlesOf(Capped(items), source_name) } })
               : items \in { ExtractItems(response.text) } })

\* parse_rss_feed(source_name, feed_url), given what the request does
ParseRssFeed(source_name, response0) ==
    The({ ParseResponse(source_name, response) : response \in {response0} })


(***************************************************************************)
(* The feed documents the feed source may hold.  A document is made of     *)
(* entry blocks; each block says how it is wrapped and which title,        *)
(* description and date elements it carries.  The parser sees only the     *)
(* characters of the rendered document.                                    *)
(***************************************************************************)

Digits == <<"1", "2", "3", "4", "5", "6", "7", "8", "9">>

\* The text of the title of block i: "T1", "T2", ...
TitleText(i) == <<"T", Digits[i]>>
\* The text of a short description of block i
ShortText(i) == <<"d", Digits[i]>>
SummaryText(i) == <<"s", Digits[i]>>
ContentText(i) == <<"c", Digits[i]>>

\* A text of n characters: "abab..." up to the limit, "z" beyond it.
LongText(n) == [k \in 1..n |-> IF k > DescLimit THEN "z" ELSE IF k % 2 = 1 THEN "a" ELSE "b"]

El(name, body) == <<"<">> \o name \o <<">">> \o body \o CloseOf(name)
CdataOf(body) == <<"<", "!", "[", "C", "D", "A", "T", "A", "[">> \o body \o <<"]", "]", ">">>
Bold(body) == <<"<", "b", ">">> \o body \o <<"<", "/", "b", ">">>

TitleKinds == {"none", "plain", "empty", "cdata", "markup", "sentinel", "padded", "upper"}

TitleElement(kind, i) ==
    CASE kind = "none" -> <<>>
      [] kind = "plain" -> El(kTitle, TitleText(i))
      [] kind = "empty" -> El(kTitle, <<>>)
      [] kind = "cdata" -> El(kTitle, CdataOf(TitleText(i)))
      [] kind = "markup" -> El(kTitle, Bold(<<"T">>) \o <<Digits[i]>>)
      [] kind = "sentinel" -> El(kTitle, NoTitle)
      [] kind = "padded" -> El(kTitle, <<" ">> \o TitleText(i) \o <<"\n">>)
      [] kind = "upper" ->
            <<"<", "T", "I", "T", "L", "E", ">">> \o TitleText(i)
            \o <<"<", "/", "T", "I", "T", "L", "E", ">">>

DescKinds == {"none", "description", "summary", "content", "empty_then_summary",
              "summary_then_description", "markup", "at_limit", "over_limit",
              "markup_over_raw", "padded_at_limit", "content_then_summary",
              "blank_summary_then_content", "all_three"}

DescElement(kind, i) ==
    CASE kind = "none" -> <<>>
      [] kind = "description" -> El(kDescription, ShortText(i))
      [] kind = "summary" -> El(kSummary, SummaryText(i))
      [] kind = "content" -> El(kContent, ContentText(i))
      [] kind = "empty_then_summary" -> El(kDescription, <<>>) \o El(kSummary, SummaryText(i))
      [] kind = "summary_then_description" ->
            El(kSummary, SummaryText(i)) \o El(kDescription, ShortText(i))
      [] kind = "markup" -> El(kDescription, Bold(<<"d">>) \o <<Digits[i]>>)
      [] kind = "at_limit" -> El(kDescription, LongText(DescLimit))
      [] kind = "over_limit" -> El(kDescription, LongText(DescLimit + 1))
      [] kind = "markup_over_raw" -> El(kDescription, Bold(LongText(DescLimit - 1)))
      [] kind = "padded_at_limit" ->
            El(kDescription, <<" ", " ">> \o LongText(DescLimit) \o <<"\n">>)
      [] kind = "content_then_summary" ->
            El(kContent, ContentText(i)) \o El(kSummary, SummaryText(i))
      [] kind = "blank_summary_then_content" ->
            El(kSummary, <<" ", "\n">>) \o El(kContent, ContentText(i))
      [] kind = "all_three" ->
            El(kContent, ContentText(i)) \o El(kSummary, SummaryText(i))
            \o El(kDescription, ShortText(i))

DateKinds == {"none", "pubDate", "updated", "two_lines"}

DateElement(kind) ==
    CASE kind = "none" -> <<>>
      [] kind = "pubDate" ->
            <<"<", "p", "u", "b", "D", "a", "t", "e", ">", "M", "o", "n", " ",
              "<", "/", "p", "u", "b", "D", "a", "t", "e", ">">>
      [] kind = "updated" -> El(kUpdated, <<"T", "u", "e">>)
      [] kind = "two_lines" -> El(kPublished, <<"W", "e", "d", "\n", "9">>)

Block(wrap, title, desc, date) == [wrap |-> wrap, title |-> title, desc |-> desc, date |-> date]

WrapName(wrap) == IF wrap = "item" THEN kItem ELSE kEntry

RenderBlock(b, i) ==
    El(WrapName(b.wrap), TitleElement(b.title, i) \o DescElement(b.desc, i) \o DateElement(b.date))

RECURSIVE RenderBlocks(_, _)
RenderBlocks(blocks, i) ==
    IF i > Len(blocks) THEN <<>>
    ELSE RenderBlock(blocks[i], i) \o RenderBlocks(blocks, i + 1)

\* The document: a channel header with the feed's own title, the blocks, the end.
RenderFeed(blocks) ==
    <<"<", "r", "s", "s", ">">> \o El(kTitle, <<"F">>) \o RenderBlocks(blocks, 1)
    \o <<"<", "/", "r", "s", "s", ">">>

\* Sequences over S of length 0..n
RECURSIVE SeqsUpTo(_, _)
SeqsUpTo(S, n) ==
    IF n = 0 THEN {<<>>}
    ELSE LET shorter == SeqsUpTo(S, n - 1)
         IN  shorter \cup { Append(q, x) : q \in { r \in shorter : Len(r) = n - 1 }, x \in S }

\* Documents of up to MaxEntries item blocks, with or without a title
CapBlocks == { Block("item", t, "none", "none") : t \in {"plain", "none"} }
\* Documents that mix item and entry blocks
MixedBlocks == { Block(w, t, "none", "none") : w \in {"item", "entry"}, t \in {"plain", "none"} }
\* Documents of one block, of every make-up
FieldBlocks ==
    { Block(w, t, d, a) : w \in {"item", "entry"}, t \in TitleKinds, d \in DescKinds, a \in DateKinds }

FeedDocs ==
    SeqsUpTo(CapBlocks, Min(MaxEntries, Len(Digits)))
    \cup SeqsUpTo(MixedBlocks, MaxMixed)
    \cup { <<b>> : b \in FieldBlocks }

\* What the feed source does on a request: the request raises, or it answers
\* with a status code and a document.
FeedOutcome(kind, err, status_code, blocks) ==
    [kind |-> kind, err |-> err, status_code |-> status_code, blocks |-> blocks]

ErrorDocs == { <<>>, <<Block("item", "plain", "description", "pubDate")>> }

FeedOutcomes ==
    { FeedOutcome("raise", e, 0, <<>>) : e \in {"Read timed out", "Connection refused"} }
    \cup { FeedOutcome("http", "", c, d) : c \in {404, 500}, d \in ErrorDocs }
    \cup { FeedOutcome("http", "", 200, d) : d \in FeedDocs }

\* requests.get(feed_url, ...) against a feed source that does `o`
Request(o) ==
    IF o.kind = "raise" THEN RaisedResponse(o.err)
    ELSE HttpResponse(o.status_code, RenderFeed(o.blocks))


(***************************************************************************)
(* One call of parse_rss_feed on any of the documents.                     *)
(***************************************************************************)

\* self.rss_feeds as set by __init__ (its leading entries)
ConfiguredFeeds ==
    << [name |-> "Federal Reserve - Commercial Paper",
        url |-> "https://www.federalreserve.gov/feeds/Data/CP_OUTST.xml"],
       [name |-> "Federal Reserve - Press Monetary",
        url |-> "https://www.federalreserve.gov/feeds/press_monetary.xml"],
       [name |-> "Fox News Latest", url |-> "https://feeds.feedburner.com/foxnews/latest"],
       [name |-> "The Hill Home News", url |-> "https://thehill.com/homenews/feed/"],
       [name |-> "Daily Caller", url |-> "https://dailycaller.com/feed/"] >>

NoResponse == [kind |-> "none", err |-> "", status_code |-> 0, text |-> <<>>]
NoResult == Result(Status("", "", "", 0, ""), <<>>)

InitParse ==
    /\ ppc = "start"
    /\ p_source \in {ConfiguredFeeds[1].name, ConfiguredFeeds[3].name}
    /\ p_feed \in FeedOutcomes
    /\ p_response = NoResponse
    /\ p_result = NoResult

\* parse_rss_feed(source_name, feed_url): the request and the parsing of
\* what comes back
ParseCall ==
    /\ mode = "parse" /\ ppc = "start"
    /\ \E response \in { Request(p_feed) } :
        /\ p_response' = response
        /\ p_result' = ParseRssFeed(p_source, response)
    /\ ppc' = "done"
    /\ UNCHANGED <<p_source, p_feed>>
    /\ UNCHANGED <<mode, qvars, fvars, avars, hvars, rvars, prvars, nvars, cvars>>


(***************************************************************************)
(* Feed Ingester: AIMarketAggregator.fetch_all_rss_feeds                   *)
(***************************************************************************)

FeedLists ==
    { SubSeq(ConfiguredFeeds, 1, n) : n \in 0..Min(MaxSources, Len(ConfiguredFeeds)) }

TitledItem == Block("item", "plain", "description", "pubDate")
UntitledItem == Block("item", "none", "description", "pubDate")
TitledEntry == Block("entry", "plain", "summary", "updated")

\* What each source of a run may do
RunOutcomes ==
    { FeedOutcome("raise", "Read timed out", 0, <<>>),
      FeedOutcome("http", "", 404, <<TitledItem>>),
      FeedOutcome("http", "", 200, <<>>),
      FeedOutcome("http", "", 200, <<UntitledItem>>),
      FeedOutcome("http", "", 200, <<TitledItem, TitledItem>>),
      FeedOutcome("http", "", 200, <<TitledEntry>>),
      FeedOutcome("http", "", 200, [k \in 1..(ItemCap + 1) |-> TitledItem]) }

NotReturnedFeeds == [returned |-> FALSE, articles |-> <<>>, statuses |-> <<>>]

InitFeeds ==
    /\ rss_feeds \in FeedLists
    /\ fpc = "start"
    /\ fi = 0
    /\ all_articles = <<>>
    /\ feed_statuses = <<>>
    /\ feed_log = <<>>
    /\ f_returned = NotReturnedFeeds

\* all_articles = []; feed_statuses = []
FetchAllBegin ==
    /\ mode = "feeds" /\ fpc = "start"
    /\ all_articles' = <<>>
    /\ feed_statuses' = <<>>
    /\ fpc' = "loop"
    /\ UNCHANGED <<rss_feeds, fi, feed_log, f_returned>>
    /\ UNCHANGED <<mode, qvars, pvars, avars, hvars, rvars, prvars, nvars, cvars>>

\* A slip: `all_articles = articles`, which keeps the last source's only
CollectLast(acc, r) ==
    [articles |-> r.articles, statuses |-> Append(acc.statuses, r.status)]

\* What one pass of the loop does with the result of parse_rss_feed:
\* feed_statuses.append(status); all_articles.extend(articles)
Collect(acc, r) ==
    [articles |-> acc.articles \o r.articles, statuses |-> Append(acc.statuses, r.status)]

\* One pass of `for source_name, feed_url in self.rss_feeds`
FetchFeed ==
    /\ mode = "feeds" /\ fpc = "loop"
    /\ fi < Len(rss_feeds)
    /\ \E o \in RunOutcomes :
        \E r \in { ParseRssFeed(rss_feeds[fi + 1].name, Request(o)) } :
        \E acc \in { Collect([articles |-> all_articles, statuses |-> feed_statuses], r) } :
            /\ feed_log' = Append(feed_log, [url |-> rss_feeds[fi + 1].url, outcome |-> o,
                                             result |-> r])
            /\ all_articles' = acc.articles
            /\ feed_statuses' = acc.statuses
    /\ fi' = fi + 1
    /\ UNCHANGED <<rss_feeds, fpc, f_returned>>
    /\ UNCHANGED <<mode, qvars, pvars, avars, hvars, rvars, prvars, nvars, cvars>>

\* return all_articles, feed_statuses
FetchAllReturn ==
    /\ mode = "feeds" /\ fpc = "loop"
    /\ fi = Len(rss_feeds)
    /\ f_returned' = [returned |-> TRUE, articles |-> all_articles, statuses |-> feed_statuses]
    /\ fpc' = "done"
    /\ UNCHANGED <<rss_feeds, fi, all_articles, feed_statuses, feed_log>>
    /\ UNCHANGED <<mode, qvars, pvars, avars, hvars, rvars, prvars, nvars, cvars>>


(***************************************************************************)
(* Text that the later stages pass on: the quote snapshot as the string    *)
(* that fetch_market_data returns.  An emoji is one element of the         *)
(* sequence, written by its name.                                          *)
(***************************************************************************)

\* The characters of a string literal
Chars(str) == [i \in 1..Len(str) |-> SubSeq(str, i, i)]

\* `lit in s` at position i, letter case respected
StartsAt(s, i, lit) ==
    /\ i >= 1 /\ i + Len(lit) - 1 <= Len(s)
    /\ \A k \in 1..Len(lit) : s[i + k - 1] = lit[k]

\* `lit in s`
Contains(s, lit) == \E i \in 1..(Len(s) - Len(lit) + 1) : StartsAt(s, i, lit)

\* sep.join(parts)
RECURSIVE JoinFrom(_, _, _)
JoinFrom(parts, i, sep) ==
    IF i > Len(parts) THEN <<>>
    ELSE IF i = Len(parts) THEN parts[i]
    ELSE parts[i] \o sep \o JoinFrom(parts, i + 1, sep)

Join(parts0, sep0) == The({ JoinFrom(parts, 1, sep) : parts \in {parts0}, sep \in {sep0} })

\* str(n) for n >= 0
RECURSIVE DecimalOf(_)
DecimalOf(n) ==
    IF n < 10 THEN <<SubSeq("0123456789", n + 1, n + 1)>>
    ELSE DecimalOf(n \div 10) \o <<SubSeq("0123456789", (n % 10) + 1, (n % 10) + 1)>>

Abs(n) == IF n < 0 THEN 0 - n ELSE n

\* f"{s:w}" for a string: padded with blanks on the right to width w
PadRight(s, w) == s \o [k \in 1..(IF Len(s) < w THEN w - Len(s) ELSE 0) |-> " "]
\* f"{x:w...}" for a number: padded with blanks on the left to width w
PadLeft(s, w) == [k \in 1..(IF Len(s) < w THEN w - Len(s) ELSE 0) |-> " "] \o s

\* f"{x:.2f}" (plus = FALSE) and f"{x:+.2f}" (plus = TRUE) of the amount of
\* n hundredths
Fixed2(n, plus) ==
    (IF n < 0 THEN <<"-">> ELSE IF plus THEN <<"+">> ELSE <<>>)
    \o DecimalOf(Abs(n) \div 100) \o <<".">>
    \o DecimalOf((Abs(n) % 100) \div 10) \o DecimalOf(Abs(n) % 10)

\* datetime.now().strftime('%Y-%m-%d %H:%M:%S') at the two instants of Clock
StampText(now) ==
    IF now = 1 THEN Chars("2025-06-30 23:59:59") ELSE Chars("2025-07-01 00:00:00")

\* The string of one line of the snapshot: its f-string
LineText(l) ==
    CASE l.kind = "nokey" -> <<"CROSS_MARK">> \o Chars(" ") \o Chars(l.text)
      [] l.kind = "banner" -> <<"BAR_CHART">> \o Chars(" ") \o Chars(l.text)
      [] l.kind = "rule" -> [k \in 1..50 |-> "="]
      [] l.kind = "stamp" -> Chars("Data retrieved: ") \o StampText(l.current) \o Chars(" UTC")
      [] l.kind = "price" ->
            PadRight(Chars(l.symbol), 8) \o Chars(" | $") \o PadLeft(Fixed2(l.current, FALSE), 10)
            \o Chars(" | ") \o <<l.direction>> \o Chars(" ")
            \o PadLeft(Fixed2(l.change, TRUE), 8) \o Chars(" (")
            \o PadLeft(Fixed2(l.change_pct, TRUE), 6) \o Chars("%)")
      [] l.kind = "nodata" -> PadRight(Chars(l.symbol), 8) \o Chars(" | ") \o Chars(l.text)
      [] l.kind = "error" -> PadRight(Chars(l.symbol), 8) \o Chars(" | Error: ") \o Chars(l.text)
      [] OTHER -> Chars(l.text)

\* "\n".join(market_results): the string fetch_market_data returns
SnapshotText(lines) == Join([k \in 1..Len(lines) |-> LineText(lines[k])], <<"\n">>)


(***************************************************************************)
(* Analysis step: AIMarketAggregator.get_ai_analysis with the two provider *)
(* calls call_openai_api_enhanced and call_anthropic_api and the static    *)
(* placeholder create_basic_analysis.                                      *)
(***************************************************************************)

\* The Python values that a provider call may hand back: None, a string, or
\* (in a response of the wrong make-up) a number or a list.
PyNone == [t |-> "none", s |-> <<>>, n |-> 0]
PyStr(s) == [t |-> "str", s |-> s, n |-> 0]
PyInt(n) == [t |-> "int", s |-> <<>>, n |-> n]
PyList(items) == [t |-> "list", s |-> items, n |-> 0]

\* bool(v)
Truthy(v) ==
    CASE v.t = "none" -> FALSE
      [] v.t = "int" -> v.n # 0
      [] OTHER -> Len(v.s) > 0

\* len(v) is defined
HasLen(v) == v.t \in {"str", "list"}

\* os.getenv('OPENAI_API_KEY'), os.getenv('ANTHROPIC_API_KEY'): unset, set
\* to the empty string, or set
ProviderKeys == {"None", "", "sk-key"}

\* A slip: `if os.getenv(...) is not None`, which lets the empty string through
KeySetNotNone(k) == k # "None"

\* `if os.getenv(...)`
KeySet(k) == k # "None" /\ k # ""

OpenAiEndpoint == "https://api.openai.com/v1/chat/completions"
AnthropicEndpoint == "https://api.anthropic.com/v1/messages"
OpenAiLabel == "OpenAI o4-mini (Enhanced)"
AnthropicLabel == "Anthropic Claude"
BasicLabel == "Basic Analysis"

\* What a provider does with one request: requests.post raises, or a
\* response comes back with a status code, a text that mentions
\* "reasoning_effort" or not, and a body: not JSON ("badjson"), JSON without
\* the path to the content ("badshape"), or JSON with a content value.
ProviderOutcome(kind, err, status_code, mentions, shape, content) ==
    [ kind |-> kind, err |-> err, status_code |-> status_code, mentions |-> mentions,
      shape |-> shape, content |-> content ]

NoProviderOutcome == ProviderOutcome("none", "", 0, FALSE, "", PyNone)

\* The content values of a well-formed answer and of a wrong-typed one
Contents ==
    { PyNone, PyStr(<<>>), PyStr(Chars("**MARKET PERFORMANCE**\nStocks rose.")),
      PyInt(5), PyList(<<"part">>) }

ProviderOutcomes ==
    { ProviderOutcome("raise", "Read timed out", 0, FALSE, "", PyNone) }
    \cup { ProviderOutcome("http", "", 400, m, "", PyNone) : m \in BOOLEAN }
    \cup { ProviderOutcome("http", "", 500, FALSE, "", PyNone) }
    \cup { ProviderOutcome("http", "", 200, FALSE, sh, PyNone) : sh \in {"badjson", "badshape"} }
    \cup { ProviderOutcome("http", "", 200, FALSE, "content", c) : c \in Contents }

\* The outcomes followed: all of them for get_ai_analysis on its own; inside
\* a whole run a time-out, the refusal of the parameter, and an answer whose
\* content is a string, a number or a list
Asked(m) ==
    IF m = "run"
    THEN { o \in ProviderOutcomes :
             o.kind = "raise" \/ (o.kind = "http" /\ o.status_code = 400 /\ o.mentions)
             \/ (o.shape = "content" /\ Truthy(o.content)) }
    ELSE ProviderOutcomes

\* One entry of the record of provider requests: the endpoint, whether the
\* payload carries "reasoning_effort", the prompt sent, and what came back.
ProviderRequest(endpoint, reasoning_effort, prompt, o) ==
    [ endpoint |-> endpoint, reasoning_effort |-> reasoning_effort, prompt |-> prompt,
      outcome |-> o ]

\* A slip: every error status is tried again
RetryOnAnyError(o) == o.kind = "http" /\ o.status_code # 200

\* response.status_code == 400 and "reasoning_effort" in response.text
RetryWanted(o) == o.kind = "http" /\ o.status_code = 400 /\ o.mentions

\* What a provider call returns for the response it ends with: the content
\* on status 200, None on another status, None from the except clause.
ProviderReply(o) ==
    IF o.kind = "http" /\ o.status_code = 200 /\ o.shape = "content" THEN o.content
    ELSE PyNone

\* datetime.now().strftime('%B %d, %Y') at the two instants of Clock
DateText(now) == IF now = 1 THEN Chars("June 30, 2025") ELSE Chars("July 01, 2025")

\* create_basic_analysis(market_data): the f-string
CreateBasicAnalysis(market_data, now) ==
    Chars("**MARKET PERFORMANCE**\n") \o DateText(now) \o Chars("\n\n")
    \o market_data
    \o Chars("\n\n**TOP MARKET & ECONOMY STORIES**\n\n**Note:** AI analysis unavailable. Please configure OPENAI_API_KEY or ANTHROPIC_API_KEY for full analysis.\n\n**GENERAL NEWS**\n\nBased on article frequency, major themes in today's news include Federal Reserve policy, technology sector developments, and geopolitical events. For detailed analysis and the top 15 stories with full summaries, please enable AI integration.\n\n**Looking Ahead:** Market participants await tomorrow's economic data releases and corporate earnings reports.")

\* The outcome of get_ai_analysis: not yet returned, the tuple
\* (body, label), or an exception that leaves the function.
AnalysisPending == [state |-> "pending", body |-> PyNone, label |-> "", err |-> ""]
AnalysisReturned(body, label) == [state |-> "returned", body |-> body, label |-> label, err |-> ""]
AnalysisRaised(err) == [state |-> "raised", body |-> PyNone, label |-> "", err |-> err]

\* A slip: `if analysis is not None`, which takes the empty string as a result
UsableNotNone(v) == v.t # "none"

\* `if analysis:`
Usable(v) == Truthy(v)

\* The snapshots handed to get_ai_analysis on its own
AnalysisSnapshots ==
    { SnapshotText(<<NoKeyLine>>),
      SnapshotText(<<BannerLine, RuleLine,
                     PriceRow("QQQ", [c |-> Num(51234), d |-> Num(-105), dp |-> Num(-20)]),
                     RuleLine, StampLine(1)>>) }

AnalysisPrompts == { Chars("Analyze the following market data and news articles") }

InitAnalysis ==
    /\ openai_api_key \in ProviderKeys
    /\ anthropic_api_key \in ProviderKeys
    /\ apc = "start"
    /\ a_prompt \in AnalysisPrompts
    /\ a_market_data \in AnalysisSnapshots
    /\ analysis = PyNone
    /\ provider_log = <<>>
    /\ a_result = AnalysisPending

\* A slip: the second provider is asked whatever the first one returned
AfterOpenAiAskBoth(v) == "anthropic"

\* Lines 466-470: with a usable value the function returns it (its length
\* is printed first, which fails for a value without a length); otherwise
\* it goes on to the second provider.
AfterOpenAi(v) ==
    IF Usable(v) THEN (IF HasLen(v) THEN "return" ELSE "raise") ELSE "anthropic"

\* A slip: the second provider's text goes out under the first one's label
AnthropicResultMislabelled(v) == AnalysisReturned(v, OpenAiLabel)

\* return analysis, "Anthropic Claude"
AnthropicResult(v) == AnalysisReturned(v, AnthropicLabel)

\* The end of call_openai_api_enhanced and lines 462-472 of get_ai_analysis,
\* for the value `v` that the call returns.
OpenAiReturns(v) ==
    /\ analysis' = v
    /\ \E step \in { AfterOpenAi(v) } :
        /\ apc' = (IF step = "anthropic" THEN "anthropic" ELSE "done")
        /\ a_result' =
              CASE step = "return" -> AnalysisReturned(v, OpenAiLabel)
                [] step = "raise" -> AnalysisRaised("object has no len()")
                [] OTHER -> a_result

\* os.getenv('OPENAI_API_KEY') is set: call_openai_api_enhanced posts the
\* request, with "reasoning_effort" in the payload.
GetAiAnalysisOpenAi ==
    /\ mode \in {"analysis", "run"} /\ apc = "start"
    /\ KeySet(openai_api_key)
    /\ \E o \in Asked(mode) :
        /\ provider_log' = Append(provider_log, ProviderRequest(OpenAiEndpoint, TRUE, a_prompt, o))
        /\ IF RetryWanted(o)
           THEN apc' = "openai_retry" /\ UNCHANGED <<analysis, a_result>>
           ELSE OpenAiReturns(ProviderReply(o))
    /\ UNCHANGED <<openai_api_key, anthropic_api_key, a_prompt, a_market_data>>
    /\ UNCHANGED <<mode, qvars, pvars, fvars, hvars, rvars, prvars, nvars, cvars>>

\* "Retrying without reasoning_effort parameter...": the second request of
\* call_openai_api_enhanced; its response is taken as it comes.
GetAiAnalysisOpenAiRetry ==
    /\ mode \in {"analysis", "run"} /\ apc = "openai_retry"
    /\ \E o \in Asked(mode) :
        /\ provider_log' = Append(provider_log, ProviderRequest(OpenAiEndpoint, FALSE, a_prompt, o))
        /\ OpenAiReturns(ProviderReply(o))
    /\ UNCHANGED <<openai_api_key, anthropic_api_key, a_prompt, a_market_data>>
    /\ UNCHANGED <<mode, qvars, pvars, fvars, hvars, rvars, prvars, nvars, cvars>>

\* os.getenv('OPENAI_API_KEY') is not set: the first provider is passed over
GetAiAnalysisNoOpenAi ==
    /\ mode \in {"analysis", "run"} /\ apc = "start"
    /\ ~KeySet(openai_api_key)
    /\ apc' = "anthropic"
    /\ UNCHANGED <<openai_api_key, anthropic_api_key, a_prompt, a_market_data, analysis,
                   provider_log, a_result>>
    /\ UNCHANGED <<mode, qvars, pvars, fvars, hvars, rvars, prvars, nvars, cvars>>

\* os.getenv('ANTHROPIC_API_KEY') is set: call_anthropic_api posts the
\* request; a usable value is returned, otherwise the placeholder is next.
GetAiAnalysisAnthropic ==
    /\ mode \in {"analysis", "run"} /\ apc = "anthropic"
    /\ KeySet(anthropic_api_key)
    /\ \E o \in Asked(mode) :
        /\ provider_log' = Append(provider_log, ProviderRequest(AnthropicEndpoint, FALSE, a_prompt, o))
        /\ \E v \in { ProviderReply(o) } :
            /\ analysis' = v
            /\ IF Usable(v)
               THEN apc' = "done" /\ a_result' = AnthropicResult(v)
               ELSE apc' = "basic" /\ UNCHANGED a_result
    /\ UNCHANGED <<openai_api_key, anthropic_api_key, a_prompt, a_market_data>>
    /\ UNCHANGED <<mode, qvars, pvars, fvars, hvars, rvars, prvars, nvars, cvars>>

\* os.getenv('ANTHROPIC_API_KEY') is not set: the second provider is passed over
GetAiAnalysisNoAnthropic ==
    /\ mode \in {"analysis", "run"} /\ apc = "anthropic"
    /\ ~KeySet(anthropic_api_key)
    /\ apc' = "basic"
    /\ UNCHANGED <<openai_api_key, anthropic_api_key, a_prompt, a_market_data, analysis,
                   provider_log, a_result>>
    /\ UNCHANGED <<mode, qvars, pvars, fvars, hvars, rvars, prvars, nvars, cvars>>

\* return self.create_basic_analysis(market_data), "Basic Analysis"
GetAiAnalysisBasic ==
    /\ mode \in {"analysis", "run"} /\ apc = "basic"
    /\ \E now \in Clock :
        a_result' = AnalysisReturned(PyStr(CreateBasicAnalysis(a_market_data, now)), BasicLabel)
    /\ apc' = "done"
    /\ UNCHANGED <<openai_api_key, anthropic_api_key, a_prompt, a_market_data, analysis,
                   provider_log>>
    /\ UNCHANGED <<mode, qvars, pvars, fvars, hvars, rvars, prvars, nvars, cvars>>


(***************************************************************************)
(* Report Renderer: AIMarketAggregator.convert_markdown_to_html            *)
(***************************************************************************)

\* s.replace(old, new): the occurrences of `old` from left to right, not
\* overlapping
RECURSIVE ReplaceFrom(_, _, _, _)
ReplaceFrom(s, start, old, new) ==
    The({ IF p = 0 THEN SubSeq(s, start, Len(s))
          ELSE SubSeq(s, start, p - 1) \o new \o ReplaceFrom(s, p + Len(old), old, new)
          : p \in { Least({ i \in start..(Len(s) - Len(old) + 1) : StartsAt(s, i, old) }) } })

Replace(s0, old0, new0) ==
    The({ ReplaceFrom(s, 1, old, new) : s \in {s0}, old \in {old0}, new \in {new0} })

\* s.split('\n')
RECURSIVE SplitFrom(_, _)
SplitFrom(s, start) ==
    The({ IF p = 0 THEN <<SubSeq(s, start, Len(s))>>
          ELSE <<SubSeq(s, start, p - 1)>> \o SplitFrom(s, p + 1)
          : p \in { FindChar(s, start, "\n") } })

SplitLines(s0) == The({ SplitFrom(s, 1) : s \in {s0} })

StrongOpen == Chars("<strong>")
StrongClose == Chars("</strong>")

\* \*\*(.+?)\*\* with "**" at i: the position of the closing "**", 0 when
\* the pattern does not match at i.  The group takes at least one character
\* and no newline.
BoldClose(s, i) ==
    IF ~StartsAt(s, i, <<"*", "*">>) THEN 0
    ELSE Least({ j \in (i + 3)..(Len(s) - 1) :
                   /\ s[j] = "*" /\ s[j + 1] = "*"
                   /\ \A k \in (i + 2)..(j - 1) : s[k] # "\n" })

\* re.sub(r'\*\*(.+?)\*\*', r'<strong>\1</strong>', text)
RECURSIVE BoldFrom(_, _)
BoldFrom(s, start) ==
    The({ IF p = 0 THEN SubSeq(s, start, Len(s))
          ELSE The({ SubSeq(s, start, p - 1) \o StrongOpen \o SubSeq(s, p + 2, j - 1)
                     \o StrongClose \o BoldFrom(s, j + 2)
                     : j \in { BoldClose(s, p) } })
          : p \in { Least({ i \in start..Len(s) : BoldClose(s, i) > 0 }) } })

Bolded(s0) == The({ BoldFrom(s, 1) : s \in {s0} })

MarkerShort == Chars("MARKET")
\* 'MARKET PERFORMANCE'
Marker == Chars("MARKET PERFORMANCE")

\* The section headers that end the market section, without 'GENERAL NEWS'
SectionHeadersShort == { Chars("TOP MARKET & ECONOMY STORIES"), Chars("Looking Ahead") }
\* 'TOP MARKET & ECONOMY STORIES', 'GENERAL NEWS', 'Looking Ahead'
SectionHeaders ==
    { Chars("TOP MARKET & ECONOMY STORIES"), Chars("GENERAL NEWS"), Chars("Looking Ahead") }

\* ... in line or ... in line or ... in line
EndsSection(line) == \E h \in SectionHeaders : Contains(line, h)

\* A slip: only the first symbol is looked for
HasTickerFirstOnly(line, tickers) == Len(tickers) > 0 /\ Contains(line, Chars(tickers[1]))

\* any(ticker in line for ticker in self.symbols)
HasTicker(line, tickers) == \E k \in 1..Len(tickers) : Contains(line, Chars(tickers[k]))

GreenSpan == Chars("<span style=\"color: #27ae60;\">") \o <<"GREEN_CIRCLE">> \o Chars("</span>")
RedSpan == Chars("<span style=\"color: #e74c3c;\">") \o <<"RED_CIRCLE">> \o Chars("</span>")
MonoOpen == Chars("<div style=\"font-family: monospace; font-size: 14px; margin: 5px 0;\">")
DivClose == Chars("</div>")

\* The two colour replacements of a market data line
Coloured(line) == Replace(Replace(line, <<"GREEN_CIRCLE">>, GreenSpan), <<"RED_CIRCLE">>, RedSpan)

\* formatted_line = '<div style="font-family: monospace; ...">' + line + '</div>'
MonoBlock(line) == MonoOpen \o Coloured(line) \o DivClose

\* One pass of `for line in lines`: the line appended to formatted_lines and
\* the value of in_market_section after it.
ScanLine(line, in_market_section, tickers) ==
    IF Contains(line, Marker) THEN [section |-> TRUE, line |-> line]
    ELSE IF EndsSection(line) THEN [section |-> FALSE, line |-> line]
    ELSE IF in_market_section /\ Strip(line) # <<>> /\ HasTicker(line, tickers)
         THEN [section |-> in_market_section, line |-> MonoBlock(line)]
         ELSE [section |-> in_market_section, line |-> line]

RECURSIVE ScanFrom(_, _, _, _)
ScanFrom(lines, i, in_market_section, tickers) ==
    IF i > Len(lines) THEN <<>>
    ELSE The({ <<r.line>> \o ScanFrom(lines, i + 1, r.section, tickers)
               : r \in { ScanLine(lines[i], in_market_section, tickers) } })

\* The loop over the lines; in_market_section = False at its start
ScanLines(lines0, tickers0) ==
    The({ ScanFrom(lines, 1, FALSE, tickers) : lines \in {lines0}, tickers \in {tickers0} })

\* Lines 513-537: the market section pass, which runs when the marker is in
\* the text.  `ran` records whether it ran, `before` and `after` the lines
\* it read and wrote.
MarketPass(text, tickers) ==
    IF Contains(text, Marker)
    THEN The({ [ran |-> TRUE, before |-> lines, after |-> ScanLines(lines, tickers)]
               : lines \in { SplitLines(text) } })
    ELSE [ran |-> FALSE, before |-> <<>>, after |-> <<>>]

\* text after the market section pass
AfterMarketPass(text, pass) == IF pass.ran THEN Join(pass.after, <<"\n">>) ELSE text

H3Open == Chars("<h3>")
H3Close == Chars("</h3>")
SourcesOpen == Chars("<div class=\"sources\">")

\* ^#{2,3} (.+)$ on one line: two or three "#", a blank, and at least one
\* more character
HeaderText(line) ==
    IF StartsAt(line, 1, Chars("## ")) /\ Len(line) > 3 THEN SubSeq(line, 4, Len(line))
    ELSE IF StartsAt(line, 1, Chars("### ")) /\ Len(line) > 4 THEN SubSeq(line, 5, Len(line))
    ELSE <<>>

\* re.sub(r'^#{2,3} (.+)$', r'<h3>\1</h3>', text, flags=re.MULTILINE), for
\* one line
HeaderLine(line) ==
    The({ IF t = <<>> THEN line ELSE H3Open \o t \o H3Close : t \in { HeaderText(line) } })

\* re.sub(r'^(Sources?:.*?)$', r'<div class="sources">\1</div>', text,
\* flags=re.MULTILINE), for one line
SourcesLine(line) ==
    IF StartsAt(line, 1, Chars("Source:")) \/ StartsAt(line, 1, Chars("Sources:"))
    THEN SourcesOpen \o line \o DivClose
    ELSE line

\* A substitution anchored with ^ and $ under re.MULTILINE: line by line
EachLine(Op(_), text) ==
    The({ Join([k \in 1..Len(lines) |-> Op(lines[k])], <<"\n">>) : lines \in { SplitLines(text) } })

POpen == Chars("<p>")
PClose == Chars("</p>")

\* Lines 546-547: paragraphs
Paragraphs(text) == POpen \o Replace(text, <<"\n", "\n">>, PClose \o POpen) \o PClose

\* Lines 550-556: the clean-up replacements, in their order
CleanUp(text) ==
    Replace(
     Replace(
      Replace(
       Replace(
        Replace(
         Replace(
          Replace(text, POpen \o PClose, <<>>),
          POpen \o H3Open, H3Open),
         H3Close \o PClose, H3Close),
        Chars("<p><div"), Chars("<div")),
       DivClose \o PClose, DivClose),
      SourcesOpen, PClose \o SourcesOpen),
     DivClose \o POpen, Chars("</div><p style=\"margin-top: 10px;\">"))

\* convert_markdown_to_html(text), from the text after the market section
\* pass on (lines 539-558)
FinishHtml(text) == CleanUp(Paragraphs(EachLine(SourcesLine, EachLine(HeaderLine, text))))

\* convert_markdown_to_html(text): the returned string and the record of
\* the market section pass
ConvertMarkdownToHtml(text0, tickers) ==
    The({ The({ [scan |-> pass, html |-> FinishHtml(AfterMarketPass(text, pass))]
                : pass \in { MarketPass(text, tickers) } })
          : text \in { Bolded(text0) } })

\* The market section pass did not run
NoPass == [ran |-> FALSE, before |-> <<>>, after |-> <<>>]

(***************************************************************************)
(* The analysis bodies that the renderer is run on: texts of a few lines,  *)
(* each line of one of the kinds below.                                    *)
(***************************************************************************)

MarkerText == Chars("**MARKET PERFORMANCE**")
QuoteRowUp == LineText(PriceRow("QQQ", [c |-> Num(51234), d |-> Num(105), dp |-> Num(20)]))
QuoteRowDown == LineText(PriceRow("MP", [c |-> Num(2500), d |-> Num(-5), dp |-> Num(-20)]))
NewsHeader == Chars("**GENERAL NEWS**")
StoriesHeader == Chars("**TOP MARKET & ECONOMY STORIES**")
AheadText == Chars("**Looking Ahead:** SPY may rise")
ProseText == Chars("Stocks rose.")
StoryText == Chars("1. **Gold** up; GLD ") \o <<"GREEN_CIRCLE">>
InWordText == Chars("A COMPANY grew")
BothMarksText == Chars("IWM ") \o <<"GREEN_CIRCLE", "RED_CIRCLE">>
MarkerAndHeaderText == Chars("MARKET PERFORMANCE / GENERAL NEWS")
MarkerWithTickerText == Chars("MARKET PERFORMANCE: QQQ")
LowerCaseText == Chars("market performance: uup")

\* The lines that the longer texts are made of
CoreLines == { MarkerText, QuoteRowDown, NewsHeader, ProseText, <<>> }
\* All the lines
AllLines ==
    CoreLines
    \cup { QuoteRowUp, StoriesHeader, AheadText, StoryText, InWordText, BothMarksText,
           MarkerAndHeaderText, MarkerWithTickerText, LowerCaseText,
           LineText(BannerLine), Chars("  "), Chars("## Outlook"), Chars("### Outlook"),
           Chars("Sources: Reuters") }

RenderTexts ==
    { Join(ls, <<"\n">>) : ls \in SeqsUpTo(CoreLines, MaxLines) \cup SeqsUpTo(AllLines, 2) }

InitRender ==
    /\ hpc = "start"
    /\ h_text \in RenderTexts
    /\ h_scan = NoPass
    /\ h_html = <<>>

\* convert_markdown_to_html(text) with self.symbols as __init__ sets it
ConvertCall ==
    /\ mode = "render" /\ hpc = "start"
    /\ \E r \in { ConvertMarkdownToHtml(h_text, symbols) } :
        /\ h_scan' = r.scan
        /\ h_html' = r.html
    /\ hpc' = "done"
    /\ UNCHANGED h_text
    /\ UNCHANGED <<mode, qvars, pvars, fvars, avars, rvars, prvars, nvars, cvars>>


(***************************************************************************)
(* Prompt Builder: AIMarketAggregator.prepare_ai_prompt_enhanced           *)
(***************************************************************************)

\* A calendar day
Day(year, month, day) == [year |-> year, month |-> month, day |-> day]

\* The calendar day of the two instants of Clock
DayOf(now) == IF now = 1 THEN Day(2025, 6, 30) ELSE Day(2025, 7, 1)

LeapYear(y) == (y % 4 = 0 /\ y % 100 # 0) \/ y % 400 = 0

DaysIn(y, m) ==
    IF m = 2 THEN (IF LeapYear(y) THEN 29 ELSE 28)
    ELSE IF m \in {4, 6, 9, 11} THEN 30 ELSE 31

\* The days of the year before month m
RECURSIVE DaysBefore(_, _)
DaysBefore(y, m) == IF m = 1 THEN 0 ELSE DaysBefore(y, m - 1) + DaysIn(y, m - 1)

\* date.toordinal(): the number of the day, day 1 being January 1 of year 1
Ordinal(d) ==
    365 * (d.year - 1) + ((d.year - 1) \div 4) - ((d.year - 1) \div 100)
    + ((d.year - 1) \div 400) + DaysBefore(d.year, d.month) + d.day

\* A slip: the look-ahead names today
SameDay(d) == d

\* d + timedelta(days=1)
NextDay(d) ==
    IF d.day < DaysIn(d.year, d.month) THEN Day(d.year, d.month, d.day + 1)
    ELSE IF d.month < 12 THEN Day(d.year, d.month + 1, 1)
    ELSE Day(d.year + 1, 1, 1)

WeekdayNames ==
    <<"Monday", "Tuesday", "Wednesday", "Thursday", "Friday", "Saturday", "Sunday">>
MonthNames ==
    <<"January", "February", "March", "April", "May", "June", "July", "August",
      "September", "October", "November", "December">>

\* f"{n:02d}"
TwoDigits(n) == IF n < 10 THEN <<"0">> \o DecimalOf(n) ELSE DecimalOf(n)

\* d.strftime('%A, %B %d')
LongDayText(d) ==
    Chars(WeekdayNames[((Ordinal(d) + 6) % 7) + 1]) \o Chars(", ")
    \o Chars(MonthNames[d.month]) \o Chars(" ") \o TwoDigits(d.day)

\* The keys of articles_by_source in the order of their insertion: the
\* sources of articles k.. that are not among `seen`
RECURSIVE SourcesFrom(_, _, _)
SourcesFrom(news, k, seen) ==
    IF k > Len(news) THEN <<>>
    ELSE IF \E j \in 1..Len(seen) : seen[j] = news[k].source
         THEN SourcesFrom(news, k + 1, seen)
         ELSE <<news[k].source>> \o SourcesFrom(news, k + 1, Append(seen, news[k].source))

\* articles_by_source[source]
ArticlesBySource(news, source) == SelectSeq(news, LAMBDA a : a.source = source)

\* A slip: source_articles[:3]
TopOfSourceThree(source_articles) == SubSeq(source_articles, 1, Min(3, Len(source_articles)))

\* source_articles[:5]
TopOfSource(source_articles) == SubSeq(source_articles, 1, Min(5, Len(source_articles)))

\* The lines appended to articles_text for article i of a source
ArticleLines(i, article) ==
    << Chars("Article ") \o DecimalOf(i) \o Chars(":"),
       Chars("Title: ") \o article.title >>
    \o (IF article.description # <<>> THEN <<Chars("Summary: ") \o article.description>>
        ELSE <<>>)
    \o << Chars("Date: ") \o article.date, <<>> >>

RECURSIVE ListedLines(_, _)
ListedLines(listed, i) ==
    IF i > Len(listed) THEN <<>>
    ELSE ArticleLines(i, listed[i]) \o ListedLines(listed, i + 1)

\* The lines appended to articles_text for one source
SourceLines(source, source_articles) ==
    << Chars("\n=== ") \o Chars(source) \o Chars(" (") \o DecimalOf(Len(source_articles))
       \o Chars(" articles) ===") >>
    \o ListedLines(TopOfSource(source_articles), 1)

RECURSIVE ArticlesTextFrom(_, _, _)
ArticlesTextFrom(news, sources, k) ==
    IF k > Len(sources) THEN <<>>
    ELSE SourceLines(sources[k], ArticlesBySource(news, sources[k]))
         \o ArticlesTextFrom(news, sources, k + 1)

\* articles_text
ArticlesText(news) == ArticlesTextFrom(news, SourcesFrom(news, 1, <<>>), 1)

PromptIntro ==
    Chars("Analyze the following market data and news articles to create a comprehensive daily briefing. Use your reasoning capabilities to identify patterns, assess market sentiment, and determine the most significant developments.\n\n## TODAY'S MARKET DATA:\n")

PromptNewsHeading ==
    Chars("\n\n## NEWS ARTICLES FROM ")

PromptTotalLabel ==
    Chars(" SOURCES:\nTotal articles: ")

PromptArticlesLead ==
    Chars("\n")

PromptInstructions ==
    Chars("\n\n## ANALYSIS INSTRUCTIONS:\n\nWhen creating the briefing, use your analytical capabilities to:\n1. Identify recurring themes across multiple news sources (stories covered by 3+ sources are especially important)\n2. Assess the overall market sentiment based on both price movements and news tone\n3. Calculate potential market impact of major news events\n4. Detect any divergences between market performance and news sentiment\n\nCreate a daily briefing with THREE DISTINCT SECTIONS:\n\n**SECTION 1 - MARKET PERFORMANCE:**\nPresent the market data with analysis of notable movements and patterns. For each ticker, show:\n- The symbol\n- Current/closing price\n- Change in dollars\n- Change in percentage\n- Use ")
    \o <<"GREEN_CIRCLE">>
    \o Chars(" for positive changes and ")
    \o <<"RED_CIRCLE">>
    \o Chars(" for negative changes\n\n**SECTION 2 - TOP MARKET & ECONOMY STORIES (5 stories):**\nUse pattern recognition to identify the 5 most significant market/economy stories based on:\n- Cross-source validation (stories appearing in multiple sources)\n- Temporal relevance (newest stories weighted higher)\n- Market impact potential\n- Federal Reserve, economic data, or major financial institution news\n\n**SECTION 3 - GENERAL NEWS STORIES (10 stories):**\nIdentify the 10 most important non-financial stories using similar cross-source analysis.\n\n**CRITICAL INSTRUCTIONS FOR ALL STORIES:**\n- You MUST provide COMPLETE details for ALL 15 stories (5 market + 10 general)\n- DO NOT abbreviate or say \"additional stories available upon request\"\n- DO NOT use placeholders like \"5-10: See full briefing\"\n- EVERY story needs:\n  * A clear, descriptive headline\n  * A FULL paragraph (4-6 sentences) explaining what happened, why it's significant, context, and implications\n  * Source attribution showing which outlets reported it\n- Number the stories clearly: 1-5 for market stories, 1-10 for general news\n\n**LOOKING AHEAD - ")

PromptClosing ==
    Chars(":**\nBased on patterns in today's news, identify specific events scheduled for tomorrow and key themes to monitor. Be specific with times if mentioned. If no specific events are mentioned for tomorrow, note key themes to watch.\n\nIMPORTANT: This is an automated daily briefing. Provide ALL 15 stories with COMPLETE details. Do not truncate or abbreviate any section. The full analysis is required for each story.")

\* The values that fill the f-string of the prompt
PromptFields(snapshot_text, news, today) ==
    [ market_data |-> snapshot_text,
      sources |-> Len(SourcesFrom(news, 1, <<>>)),
      total |-> Len(news),
      articles_text |-> ArticlesText(news),
      tomorrow_str |-> LongDayText(NextDay(today)) ]

\* The f-string of the prompt, filled
PromptText(f) ==
    PromptIntro \o f.market_data
    \o PromptNewsHeading \o DecimalOf(f.sources)
    \o PromptTotalLabel \o DecimalOf(f.total)
    \o PromptArticlesLead \o Join(f.articles_text, <<"\n">>)
    \o PromptInstructions \o f.tomorrow_str
    \o PromptClosing

\* prepare_ai_prompt_enhanced(market_data, articles) on the day `today`:
\* the string it returns
PrepareAiPromptEnhanced(snapshot_text, news, today) ==
    PromptText(PromptFields(snapshot_text, news, today))


(***************************************************************************)
(* Orchestrator: AIMarketAggregator.run                                    *)
(*                                                                         *)
(* run calls the stages one after the other and has no try block of its    *)
(* own.  A stage that has its own specification above is taken here as     *)
(* the function it computes, over a few of the outcomes of its             *)
(* collaborators; get_ai_analysis runs through its own actions.            *)
(***************************************************************************)

\* How many of the configured symbols and feeds a whole run is followed with
RunSymbolCount == 1
RunFeedCount == 1

RunSymbols == SubSeq(ConfiguredSymbols, 1, Min(RunSymbolCount, Len(ConfiguredSymbols)))
RunFeeds == SubSeq(ConfiguredFeeds, 1, Min(RunFeedCount, Len(ConfiguredFeeds)))

\* What the quote source does in a whole run: the request times out, or a
\* quote comes back
StageQuoteOutcomes ==
    { o \in QuoteOutcomes :
        \/ o.kind = "raise" /\ o.err = "Read timed out"
        \/ o.kind = "json" /\ o.data = [c |-> Num(10000), d |-> Num(100), dp |-> Num(100)] }

\* What a feed source does in a whole run
StageFeedOutcomes ==
    { FeedOutcome("raise", "Read timed out", 0, <<>>),
      FeedOutcome("http", "", 404, <<TitledItem>>),
      FeedOutcome("http", "", 200, <<TitledItem, TitledItem>>) }

\* The rows of the loop of fetch_market_data over symbols k.. of `syms`
RECURSIVE MarketRows(_, _, _)
MarketRows(syms, os, k) ==
    IF k > Len(syms) THEN <<>>
    ELSE QuoteIteration(syms[k], os[k]).rows \o MarketRows(syms, os, k + 1)

\* fetch_market_data() as a function of the key, the outcome of each
\* symbol's request and the clock: the string it returns
FetchMarketData(syms, key, os, now) ==
    SnapshotText(IF NoKey(key) THEN <<NoKeyLine>>
                 ELSE <<BannerLine, RuleLine>> \o MarketRows(syms, os, 1)
                      \o <<RuleLine, StampLine(now)>>)

\* The loop of fetch_all_rss_feeds over feeds k.. of `feeds`
RECURSIVE CollectFrom(_, _, _, _)
CollectFrom(feeds, os, k, acc) ==
    IF k > Len(feeds) THEN acc
    ELSE CollectFrom(feeds, os, k + 1,
                     Collect(acc, ParseRssFeed(feeds[k].name, Request(os[k]))))

\* fetch_all_rss_feeds() as a function of the outcome of each feed's
\* request: the pair (all_articles, feed_statuses)
FetchAllRssFeeds(feeds, os) ==
    CollectFrom(feeds, os, 1, [articles |-> <<>>, statuses |-> <<>>])

\* What a called function hands to run: a value, or an exception
StageValue(v) == [raised |-> FALSE, err |-> "", value |-> v]
StageRaises(err) == [raised |-> TRUE, err |-> err, value |-> <<>>]

\* format_email_html(ai_analysis, analysis_source): the fields that fill the
\* template.  convert_markdown_to_html begins with re.sub on its argument
\* (line 510), which raises a TypeError for anything but a string.
FormatEmailHtml(body, source, now, tickers) ==
    IF body.t = "str"
    THEN StageValue([timestamp |-> now, source |-> source,
                     content |-> ConvertMarkdownToHtml(body.s, tickers).html])
    ELSE StageRaises("expected string or bytes-like object")

\* SENDER_EMAIL, SENDER_PASSWORD, RECIPIENT_EMAIL in the environment
MailEnv(sender_email, sender_password, recipient_email) ==
    [ sender_email |-> sender_email, sender_password |-> sender_password,
      recipient_email |-> recipient_email ]

MailEnvs ==
    { MailEnv("from@example.com", "app-password", "to@example.com"),
      MailEnv("from@example.com", "None", "to@example.com"),
      MailEnv("from@example.com", "app-password", "") }

\* Before send_report_email has read the settings
NoMailEnv == MailEnv("None", "None", "None")

\* A slip: only the sender address is looked at
MailConfiguredSenderOnly(env) == env.sender_email \notin {"None", ""}

\* all([sender_email, sender_password, recipient_email])
MailConfigured(env) ==
    \A k \in {"sender_email", "sender_password", "recipient_email"} : env[k] \notin {"None", ""}

\* What the mail server does with one session: the connection is refused,
\* the login is rejected, or the message is accepted
SmtpOutcomes == {"refused", "rejected", "accepted"}

\* One SMTP session: the server, the envelope, the message handed over
MailSession(env, now, html, o) ==
    [ host |-> "smtp.gmail.com", port |-> 587, sender |-> env.sender_email,
      recipient |-> env.recipient_email, subject_date |-> now, html |-> html,
      outcome |-> o ]

\* The names of the stages in the order of the calls of run
Stages ==
    << "fetch_market_data", "fetch_all_rss_feeds", "prepare_ai_prompt_enhanced",
       "get_ai_analysis", "format_email_html", "send_report_email" >>

NoSummary == [printed |-> FALSE, articles |-> 0, source |-> "", email_sent |-> FALSE]
NoHtml == [timestamp |-> 0, source |-> "", content |-> <<>>]
NoPrompt ==
    [market_data |-> <<>>, sources |-> 0, total |-> 0, articles_text |-> <<>>,
     tomorrow_str |-> <<>>]

InitRun ==
    /\ rpc = "step1"
    /\ run_market_data = <<>>
    /\ run_articles = <<>>
    /\ run_feed_statuses = <<>>
    /\ run_prompt = NoPrompt
    /\ ai_analysis = PyNone
    /\ analysis_source = ""
    /\ html_content = NoHtml
    /\ mail_env = NoMailEnv
    /\ email_sent = FALSE
    /\ mail_log = <<>>
    /\ run_calls = <<>>
    /\ run_result = "running"
    /\ summary = NoSummary

\* An exception that reaches run leaves it: run has no try block
RunRaises ==
    /\ rpc' = "done"
    /\ run_result' = "raised"

\* Step 1: market_data = self.fetch_market_data()
RunFetchMarketData ==
    /\ mode = "run" /\ rpc = "step1"
    /\ \E os \in [1..Len(symbols) -> StageQuoteOutcomes], now \in Clock :
        run_market_data' = FetchMarketData(symbols, api_key, os, now)
    /\ run_calls' = Append(run_calls, "fetch_market_data")
    /\ rpc' = "step2"
    /\ UNCHANGED <<run_articles, run_feed_statuses, run_prompt, ai_analysis, analysis_source,
                   html_content, mail_env, email_sent, mail_log, run_result, summary>>
    /\ UNCHANGED <<mode, qvars, pvars, fvars, avars, hvars, prvars, nvars, cvars>>

\* Step 2: articles, feed_statuses = self.fetch_all_rss_feeds()
RunFetchAllRssFeeds ==
    /\ mode = "run" /\ rpc = "step2"
    /\ \E os \in [1..Len(rss_feeds) -> StageFeedOutcomes] :
        \E r \in { FetchAllRssFeeds(rss_feeds, os) } :
            /\ run_articles' = r.articles
            /\ run_feed_statuses' = r.statuses
    /\ run_calls' = Append(run_calls, "fetch_all_rss_feeds")
    /\ rpc' = "step3"
    /\ UNCHANGED <<run_market_data, run_prompt, ai_analysis, analysis_source, html_content,
                   mail_env, email_sent, mail_log, run_result, summary>>
    /\ UNCHANGED <<mode, qvars, pvars, fvars, avars, hvars, prvars, nvars, cvars>>

\* Step 3: prompt = self.prepare_ai_prompt_enhanced(market_data, articles).
\* A whole run carries the prompt as the values that fill it; the string is
\* PromptText of them.
RunPreparePrompt ==
    /\ mode = "run" /\ rpc = "step3"
    /\ \E now \in Clock :
        run_prompt' = PromptFields(run_market_data, run_articles, DayOf(now))
    /\ run_calls' = Append(run_calls, "prepare_ai_prompt_enhanced")
    /\ rpc' = "step4"
    /\ UNCHANGED <<run_market_data, run_articles, run_feed_statuses, ai_analysis, analysis_source,
                   html_content, mail_env, email_sent, mail_log, run_result, summary>>
    /\ UNCHANGED <<mode, qvars, pvars, fvars, avars, hvars, prvars, nvars, cvars>>

\* The provider keys of the environment in a whole run
RunProviderKeys == {"None", "sk-key"}

\* Step 4, the call: self.get_ai_analysis(prompt, market_data), which reads
\* the two provider keys from the environment
RunGetAiAnalysis ==
    /\ mode = "run" /\ rpc = "step4" /\ apc = "idle"
    /\ openai_api_key' \in RunProviderKeys
    /\ anthropic_api_key' \in RunProviderKeys
    /\ a_prompt' = run_prompt
    /\ a_market_data' = run_market_data
    /\ apc' = "start"
    /\ run_calls' = Append(run_calls, "get_ai_analysis")
    /\ UNCHANGED <<analysis, provider_log, a_result>>
    /\ UNCHANGED <<rpc, run_market_data, run_articles, run_feed_statuses, run_prompt, ai_analysis,
                   analysis_source, html_content, mail_env, email_sent, mail_log,
                   run_result, summary>>
    /\ UNCHANGED <<mode, qvars, pvars, fvars, hvars, prvars, nvars, cvars>>

\* Step 4, the return: ai_analysis, analysis_source = ...; an exception
\* of get_ai_analysis goes on out of run
RunAnalysisBack ==
    /\ mode = "run" /\ rpc = "step4" /\ apc = "done"
    /\ IF a_result.state = "raised"
       THEN /\ RunRaises
            /\ UNCHANGED <<ai_analysis, analysis_source>>
       ELSE /\ ai_analysis' = a_result.body
            /\ analysis_source' = a_result.label
            /\ rpc' = "step5"
            /\ UNCHANGED run_result
    /\ UNCHANGED <<run_market_data, run_articles, run_feed_statuses, run_prompt, html_content,
                   mail_env, email_sent, mail_log, run_calls, summary>>
    /\ UNCHANGED <<mode, qvars, pvars, fvars, avars, hvars, prvars, nvars, cvars>>

\* Step 5: html_content = self.format_email_html(ai_analysis, analysis_source)
RunFormatEmailHtml ==
    /\ mode = "run" /\ rpc = "step5"
    /\ run_calls' = Append(run_calls, "format_email_html")
    /\ \E now \in Clock :
        \E r \in { FormatEmailHtml(ai_analysis, analysis_source, now, symbols) } :
            IF r.raised
            THEN /\ RunRaises
                 /\ UNCHANGED html_content
            ELSE /\ html_content' = r.value
                 /\ rpc' = "send"
                 /\ UNCHANGED run_result
    /\ UNCHANGED <<run_market_data, run_articles, run_feed_statuses, run_prompt, ai_analysis,
                   analysis_source, mail_env, email_sent, mail_log, summary>>
    /\ UNCHANGED <<mode, qvars, pvars, fvars, avars, hvars, prvars, nvars, cvars>>

\* email_sent = self.send_report_email(html_content), which reads the
\* three settings from the environment; without them: "Missing email configuration", return False
RunSendReportEmailNoConfig ==
    /\ mode = "run" /\ rpc = "send"
    /\ \E env \in MailEnvs :
        /\ ~MailConfigured(env)
        /\ mail_env' = env
    /\ email_sent' = FALSE
    /\ run_calls' = Append(run_calls, "send_report_email")
    /\ rpc' = "summary"
    /\ UNCHANGED <<run_market_data, run_articles, run_feed_statuses, run_prompt, ai_analysis,
                   analysis_source, html_content, mail_log, run_result, summary>>
    /\ UNCHANGED <<mode, qvars, pvars, fvars, avars, hvars, prvars, nvars, cvars>>

\* email_sent = self.send_report_email(html_content), with the settings: one
\* SMTP session inside the try block; True when the message was accepted,
\* False from the except clause
RunSendReportEmail ==
    /\ mode = "run" /\ rpc = "send"
    /\ \E env \in MailEnvs, o \in SmtpOutcomes, now \in Clock :
        /\ MailConfigured(env)
        /\ mail_env' = env
        /\ mail_log' = Append(mail_log, MailSession(env, now, html_content, o))
        /\ email_sent' = (o = "accepted")
    /\ run_calls' = Append(run_calls, "send_report_email")
    /\ rpc' = "summary"
    /\ UNCHANGED <<run_market_data, run_articles, run_feed_statuses, run_prompt, ai_analysis,
                   analysis_source, html_content, run_result, summary>>
    /\ UNCHANGED <<mode, qvars, pvars, fvars, avars, hvars, prvars, nvars, cvars>>

\* The execution summary (lines 770-776), after which run returns
RunSummary ==
    /\ mode = "run" /\ rpc = "summary"
    /\ summary' = [printed |-> TRUE, articles |-> Len(run_articles), source |-> analysis_source,
                   email_sent |-> email_sent]
    /\ run_result' = "returned"
    /\ rpc' = "done"
    /\ UNCHANGED <<run_market_data, run_articles, run_feed_statuses, run_prompt, ai_analysis,
                   analysis_source, html_content, mail_env, email_sent, mail_log, run_calls>>
    /\ UNCHANGED <<mode, qvars, pvars, fvars, avars, hvars, prvars, nvars, cvars>>


(***************************************************************************)
(* The "Basic Analysis" path: fetch_market_data, create_basic_analysis on  *)
(* the snapshot, convert_markdown_to_html on the placeholder.              *)
(***************************************************************************)

\* How many of the configured symbols the path is followed with
MaxRowSymbols == 2

RowSymbolLists ==
    { SubSeq(ConfiguredSymbols, 1, n) : n \in 0..Min(MaxRowSymbols, Len(ConfiguredSymbols)) }

QuoteRaises(err) == [kind |-> "raise", err |-> err, data |-> [c |-> Absent, d |-> Absent, dp |-> Absent]]
QuoteAnswers(data) == [kind |-> "json", err |-> "", data |-> data]

\* What the quote source does for one symbol on this path: a quote that is
\* up, a quote that is down, an answer without a price, a time-out, and an
\* error whose text holds one of the section headers
RowOutcomes ==
    { QuoteAnswers([c |-> Num(10000), d |-> Num(100), dp |-> Num(100)]),
      QuoteAnswers([c |-> Num(10000), d |-> Num(-100), dp |-> Num(100)]),
      QuoteAnswers([c |-> Null, d |-> Absent, dp |-> Absent]),
      QuoteRaises("Read timed out"),
      QuoteRaises("Unexpected page: GENERAL NEWS") }

\* market_results at the end of fetch_market_data, as a function of the key,
\* the outcome of each symbol's request and the clock
MarketResults(syms, key, os, now) ==
    IF NoKey(key) THEN <<NoKeyLine>>
    ELSE <<BannerLine, RuleLine>> \o MarketRows(syms, os, 1) \o <<RuleLine, StampLine(now)>>

InitBasic ==
    /\ symbols \in RowSymbolLists
    /\ api_key \in ApiKeys
    /\ rpc = "fetch"

\* market_data = self.fetch_market_data()
BasicFetchMarketData ==
    /\ mode = "basic" /\ rpc = "fetch"
    /\ \E os \in [1..Len(symbols) -> RowOutcomes], now \in Clock :
        /\ market_results' = MarketResults(symbols, api_key, os, now)
        /\ snapshot' = Returned(market_results')
    /\ rpc' = "create"
    /\ UNCHANGED <<symbols, api_key, qpc, qi, quote_log, quote_seen>>
    /\ UNCHANGED <<run_market_data, run_articles, run_feed_statuses, run_prompt, ai_analysis,
                   analysis_source, html_content, mail_env, email_sent, mail_log, run_calls,
                   run_result, summary>>
    /\ UNCHANGED <<mode, pvars, fvars, avars, hvars, prvars, nvars, cvars>>

\* self.create_basic_analysis(market_data), "Basic Analysis"
BasicCreateBasicAnalysis ==
    /\ mode = "basic" /\ rpc = "create"
    /\ \E text \in { SnapshotText(snapshot.lines) }, now \in Clock :
        /\ a_market_data' = text
        /\ a_result' = AnalysisReturned(PyStr(CreateBasicAnalysis(text, now)), BasicLabel)
    /\ rpc' = "convert"
    /\ UNCHANGED <<openai_api_key, anthropic_api_key, apc, a_prompt, analysis, provider_log>>
    /\ UNCHANGED <<run_market_data, run_articles, run_feed_statuses, run_prompt, ai_analysis,
                   analysis_source, html_content, mail_env, email_sent, mail_log, run_calls,
                   run_result, summary>>
    /\ UNCHANGED <<mode, qvars, pvars, fvars, hvars, prvars, nvars, cvars>>

\* self.convert_markdown_to_html(ai_analysis) on the placeholder
BasicConvert ==
    /\ mode = "basic" /\ rpc = "convert"
    /\ h_text' = a_result.body.s
    /\ \E r \in { ConvertMarkdownToHtml(a_result.body.s, symbols) } :
        /\ h_scan' = r.scan
        /\ h_html' = r.html
    /\ rpc' = "done"
    /\ UNCHANGED hpc
    /\ UNCHANGED <<run_market_data, run_articles, run_feed_statuses, run_prompt, ai_analysis,
                   analysis_source, html_content, mail_env, email_sent, mail_log, run_calls,
                   run_result, summary>>
    /\ UNCHANGED <<mode, qvars, pvars, fvars, avars, prvars, nvars, cvars>>


(***************************************************************************)
(* Feed Ingester and Prompt Builder together: fetch_all_rss_feeds, then    *)
(* prepare_ai_prompt_enhanced on what it returned.                         *)
(***************************************************************************)

\* Feed lists with pairwise distinct names, and one in which two feeds
\* carry the same name
PromptFeedLists ==
    { <<>>, <<ConfiguredFeeds[1]>>, <<ConfiguredFeeds[1], ConfiguredFeeds[2]>>,
      <<ConfiguredFeeds[1], [name |-> ConfiguredFeeds[1].name, url |-> ConfiguredFeeds[2].url]>> }

\* The days on which the prompt is built
PromptDays ==
    { Day(2025, 6, 30), Day(2025, 7, 1), Day(2025, 12, 31), Day(2024, 2, 28), Day(2025, 2, 28) }

NoDay == Day(0, 0, 0)

InitPrompt ==
    /\ rss_feeds \in PromptFeedLists
    /\ run_market_data \in AnalysisSnapshots
    /\ rpc = "ingest"
    /\ prompt_day = NoDay
    /\ prompt_text = <<>>

\* articles, feed_statuses = self.fetch_all_rss_feeds()
PromptIngest ==
    /\ mode = "prompt" /\ rpc = "ingest"
    /\ \E os \in [1..Len(rss_feeds) -> RunOutcomes] :
        \E r \in { FetchAllRssFeeds(rss_feeds, os) } :
            /\ run_articles' = r.articles
            /\ run_feed_statuses' = r.statuses
    /\ rpc' = "build"
    /\ UNCHANGED <<run_market_data, run_prompt, ai_analysis, analysis_source, html_content,
                   mail_env, email_sent, mail_log, run_calls, run_result, summary>>
    /\ UNCHANGED <<mode, qvars, pvars, fvars, avars, hvars, prvars, nvars, cvars>>

\* prompt = self.prepare_ai_prompt_enhanced(market_data, articles)
PromptBuild ==
    /\ mode = "prompt" /\ rpc = "build"
    /\ \E today \in PromptDays :
        /\ prompt_day' = today
        /\ run_prompt' = PromptFields(run_market_data, run_articles, today)
        /\ prompt_text' = PrepareAiPromptEnhanced(run_market_data, run_articles, today)
    /\ rpc' = "done"
    /\ UNCHANGED <<run_market_data, run_articles, run_feed_statuses, ai_analysis,
                   analysis_source, html_content, mail_env, email_sent, mail_log, run_calls,
                   run_result, summary>>
    /\ UNCHANGED <<mode, qvars, pvars, fvars, avars, hvars, nvars, cvars>>


(***************************************************************************)
(* send_report_email, called on its own.                                   *)
(***************************************************************************)

\* What os.getenv gives for one mail setting: a value, None (unset), or the
\* empty string
MailSettingValues(value) == {value, "None", ""}

\* The mail settings the environment may hold
AllMailEnvs ==
    { MailEnv(s, p, r) : s \in MailSettingValues("from@example.com"),
                         p \in MailSettingValues("app-password"),
                         r \in MailSettingValues("to@example.com") }

\* What the mail server does with one session, step by step of the with
\* block: besides SmtpOutcomes, STARTTLS is refused, or the message is
\* refused after the login
SessionOutcomes == SmtpOutcomes \cup {"no_tls", "not_sent"}

\* The pages handed to send_report_email
MailPages ==
    { NoHtml,
      [timestamp |-> 1, source |-> "Basic", content |-> Chars("<p>Markets</p>")],
      [timestamp |-> 2, source |-> "OpenAI", content |-> Chars("<h3>Outlook</h3>")] }

InitMail ==
    /\ rpc = "getenv"
    /\ html_content \in MailPages
    /\ mail_env = NoMailEnv
    /\ email_sent = FALSE /\ mail_log = <<>>
    /\ run_result = "running"

\* sender_email, sender_password, recipient_email = os.getenv(...)
MailGetenv ==
    /\ mode = "mail" /\ rpc = "getenv"
    /\ mail_env' \in AllMailEnvs
    /\ rpc' = "check"
    /\ UNCHANGED <<run_market_data, run_articles, run_feed_statuses, run_prompt, ai_analysis,
                   analysis_source, html_content, email_sent, mail_log, run_calls,
                   run_result, summary>>
    /\ UNCHANGED <<mode, qvars, pvars, fvars, avars, hvars, prvars, nvars, cvars>>

\* if not all([...]): return False
MailMissingConfiguration ==
    /\ mode = "mail" /\ rpc = "check"
    /\ ~MailConfigured(mail_env)
    /\ email_sent' = FALSE
    /\ run_result' = "returned"
    /\ rpc' = "done"
    /\ UNCHANGED <<run_market_data, run_articles, run_feed_statuses, run_prompt, ai_analysis,
                   analysis_source, html_content, mail_env, mail_log, run_calls, summary>>
    /\ UNCHANGED <<mode, qvars, pvars, fvars, avars, hvars, prvars, nvars, cvars>>

\* The try block: one SMTP session; return True after send_message, return
\* False from the except clause
MailTrySession ==
    /\ mode = "mail" /\ rpc = "check"
    /\ MailConfigured(mail_env)
    /\ \E o \in SessionOutcomes, now \in Clock :
        /\ mail_log' = Append(mail_log, MailSession(mail_env, now, html_content, o))
        /\ email_sent' = (o = "accepted")
    /\ run_result' = "returned"
    /\ rpc' = "done"
    /\ UNCHANGED <<run_market_data, run_articles, run_feed_statuses, run_prompt, ai_analysis,
                   analysis_source, html_content, mail_env, run_calls, summary>>
    /\ UNCHANGED <<mode, qvars, pvars, fvars, avars, hvars, prvars, nvars, cvars>>


(***************************************************************************)
(* RealDataAINewsletterBot.get_market_data (ai_newsletter.py)              *)
(***************************************************************************)

\* symbols, the local list of get_market_data
NewsletterSymbols == <<"AAPL", "MSFT", "GOOGL", "TSLA", "SPY", "QQQ", "DJI", "IXIC">>

\* What one quote request of get_market_data may do: requests.get raises,
\* or a JSON object comes back: without 'c', with a null 'c' (formatting
\* it raises a TypeError), or with a price
NewsletterOutcomes ==
    { [kind |-> "raise", err |-> "Read timed out",
       data |-> [c |-> Absent, d |-> Absent, dp |-> Absent]],
      [kind |-> "json", err |-> "", data |-> [c |-> Absent, d |-> Absent, dp |-> Absent]],
      [kind |-> "json", err |-> "unsupported format string passed to NoneType.__format__",
       data |-> [c |-> Null, d |-> Num(0), dp |-> Num(0)]],
      [kind |-> "json", err |-> "", data |-> [c |-> Num(10000), d |-> Num(100), dp |-> Num(100)]] }

\* data.get(k, 0)
GetOrDefault0(data, k) == IF data[k].t = "absent" THEN Num(0) ELSE data[k]

\* direction = chart up if change >= 0 else chart down
NewsletterDirection(change) == IF change >= 0 THEN "CHART_UP" ELSE "CHART_DOWN"

\* f"{symbol}: ${current:.2f} {direction} {change:+.2f} ({change_pct:+.2f}%)"
NewsletterRow(symbol, data) ==
    Line("price", symbol, data.c.v, NewsletterDirection(GetOrDefault0(data, "d").v),
         GetOrDefault0(data, "d").v, GetOrDefault0(data, "dp").v, "")

\* The body of the loop for one symbol; the loop has no try of its own, so
\* an exception leaves the loop
NewsletterIteration(symbol, o) ==
    IF o.kind # "json" THEN Propagates
    ELSE IF o.data.c.t = "absent" THEN Appends(<<>>)
    ELSE IF \E k \in {"c", "d", "dp"} : GetOrDefault0(o.data, k).t # "num" THEN Propagates
    ELSE Appends(<<NewsletterRow(symbol, o.data)>>)

\* "No Finnhub API key found. Sign up free at finnhub.io"
NewsletterNoKeyLine == TextLine("nokey", "No Finnhub API key found. Sign up free at finnhub.io")
\* "Unable to fetch market data"
NewsletterUnableLine == TextLine("unable", "Unable to fetch market data")
\* f"Error fetching market data: {str(e)}"
NewsletterErrorLine(err) == TextLine("error", err)

InitNewsletterQuote ==
    /\ symbols = NewsletterSymbols
    /\ api_key \in ApiKeys
    /\ qpc = "start"
    /\ qi = 0
    /\ market_results = <<>>
    /\ quote_log = <<>>
    /\ quote_seen = NoOutcome
    /\ snapshot = NotReturned

\* if not api_key: return the explanatory line
GetMarketDataNoKey ==
    /\ mode = "nl_quote" /\ qpc = "start"
    /\ NoKey(api_key)
    /\ snapshot' = Returned(<<NewsletterNoKeyLine>>)
    /\ qpc' = "done"
    /\ UNCHANGED <<symbols, api_key, qi, market_results, quote_log, quote_seen>>
    /\ UNCHANGED <<mode, pvars, fvars, avars, hvars, rvars, prvars, nvars, cvars>>

\* try: symbols = [...]; market_data = []
GetMarketDataBegin ==
    /\ mode = "nl_quote" /\ qpc = "start"
    /\ ~NoKey(api_key)
    /\ market_results' = <<>>
    /\ qpc' = "loop"
    /\ UNCHANGED <<symbols, api_key, qi, quote_log, quote_seen, snapshot>>
    /\ UNCHANGED <<mode, pvars, fvars, avars, hvars, rvars, prvars, nvars, cvars>>

\* One pass of `for symbol in symbols`; an exception reaches the except
\* clause of the function, which returns the error text
GetMarketDataQuote ==
    /\ mode = "nl_quote" /\ qpc = "loop"
    /\ qi < Len(symbols)
    /\ \E o \in NewsletterOutcomes :
        \E r \in { NewsletterIteration(symbols[qi + 1], o) } :
            /\ quote_log' = Append(quote_log, symbols[qi + 1])
            /\ quote_seen' = o
            /\ IF r.raised
               THEN /\ snapshot' = Returned(<<NewsletterErrorLine(o.err)>>)
                    /\ qpc' = "done"
                    /\ UNCHANGED <<market_results, qi>>
               ELSE /\ market_results' = market_results \o r.rows
                    /\ qi' = qi + 1
                    /\ UNCHANGED <<snapshot, qpc>>
    /\ UNCHANGED <<symbols, api_key>>
    /\ UNCHANGED <<mode, pvars, fvars, avars, hvars, rvars, prvars, nvars, cvars>>

\* return "\\n".join(market_data) if market_data else "Unable to fetch
\* market data"
GetMarketDataReturn ==
    /\ mode = "nl_quote" /\ qpc = "loop"
    /\ qi = Len(symbols)
    /\ snapshot' = Returned(IF market_results # <<>> THEN market_results
                            ELSE <<NewsletterUnableLine>>)
    /\ qpc' = "done"
    /\ UNCHANGED <<symbols, api_key, qi, market_results, quote_log, quote_seen>>
    /\ UNCHANGED <<mode, pvars, fvars, avars, hvars, rvars, prvars, nvars, cvars>>


(***************************************************************************)
(* RealDataAINewsletterBot.convert_markdown_to_html (ai_newsletter.py).    *)
(* Its patterns and separators are raw strings with doubled backslashes:   *)
(* the template r'<h3>\\1</h3>' is the text <h3>, a backslash, 1, </h3>;   *)
(* the pattern r'\\*\\*(.*?)\\*\\*' is two runs of backslashes, a lazy     *)
(* group, two runs of backslashes; '\\n' is a backslash followed by n.     *)
(***************************************************************************)

Backslash == "\\"

\* '\\n': a backslash and the letter n
BackslashN == <<Backslash, "n">>

\* The template r'<tag>\\1</tag>' as re.sub expands it: an escaped
\* backslash, then the character 1
EscapedOne(tag) ==
    <<"<">> \o tag \o <<">", Backslash, "1", "<", "/">> \o tag \o <<">">>

\* One line under re.sub(r'^<marks> (.*?)$', r'<tag>\\1</tag>', ...,
\* flags=re.MULTILINE)
NewsletterHeaderLine(line, marks, tag) ==
    IF StartsAt(line, 1, marks \o <<" ">>) THEN EscapedOne(tag) ELSE line

\* The three header substitutions, in the order of the code
NewsletterHeaders(content) ==
    EachLine(LAMBDA l1 : NewsletterHeaderLine(l1, Chars("#"), Chars("h1")),
      EachLine(LAMBDA l2 : NewsletterHeaderLine(l2, Chars("##"), Chars("h2")),
        EachLine(LAMBDA l3 : NewsletterHeaderLine(l3, Chars("###"), Chars("h3")), content)))

\* The number of backslashes that stand in s from position p on
BackslashRun(s, p) ==
    Least({ j \in p..(Len(s) + 1) : j = Len(s) + 1 \/ s[j] # Backslash }) - p

\* re.sub(r'\\*\\*(.*?)\\*\\*', r'<strong>\\1</strong>', content) from
\* position p on.  The pattern matches the empty string everywhere; after
\* an empty match the next match at the same place must be longer
\* (must_advance), and then takes one character that is not a newline and
\* the backslashes after it.
RECURSIVE NewsletterBoldFrom(_, _, _)
NewsletterBoldFrom(s, p, must_advance) ==
    IF p > Len(s) THEN (IF must_advance THEN <<>> ELSE EscapedOne(Chars("strong")))
    ELSE The({ IF b > 0
               THEN EscapedOne(Chars("strong")) \o NewsletterBoldFrom(s, p + b, FALSE)
               ELSE IF ~must_advance
               THEN EscapedOne(Chars("strong")) \o NewsletterBoldFrom(s, p, TRUE)
               ELSE IF s[p] = "\n"
               THEN <<"\n">> \o NewsletterBoldFrom(s, p + 1, FALSE)
               ELSE EscapedOne(Chars("strong"))
                    \o NewsletterBoldFrom(s, p + 1 + BackslashRun(s, p + 1), FALSE)
               : b \in { BackslashRun(s, p) } })

NewsletterBold(s0) == The({ NewsletterBoldFrom(s, 1, FALSE) : s \in {s0} })

\* s.split(sep) from position start on
RECURSIVE SplitOnFrom(_, _, _)
SplitOnFrom(s, start, sep) ==
    The({ IF p = 0 THEN <<SubSeq(s, start, Len(s))>>
          ELSE <<SubSeq(s, start, p - 1)>> \o SplitOnFrom(s, p + Len(sep), sep)
          : p \in { Least({ i \in start..(Len(s) - Len(sep) + 1) : StartsAt(s, i, sep) }) } })

SplitOn(s0, sep0) == The({ SplitOnFrom(s, 1, sep) : s \in {s0}, sep \in {sep0} })

\* The bullet of the source file, three characters
SourceBullet == <<"U+00E2", "U+20AC", "U+00A2">>

\* line.strip().startswith(bullet) or (line.strip().startswith('*') and
\* not line.strip().startswith('**'))
IsBulletLine(line) ==
    \E t \in { Strip(line) } :
        \/ StartsAt(t, 1, SourceBullet)
        \/ StartsAt(t, 1, <<"*">>) /\ ~StartsAt(t, 1, <<"*", "*">>)

\* f'<li>{line.strip()[1:].strip()}</li>'
ListItem(line) == Chars("<li>") \o Strip(Tail(Strip(line))) \o Chars("</li>")

\* The loop over lines that builds formatted_lines
RECURSIVE FormattedLines(_, _, _)
FormattedLines(lines, k, in_list) ==
    IF k > Len(lines) THEN (IF in_list THEN <<Chars("</ul>")>> ELSE <<>>)
    ELSE IF IsBulletLine(lines[k])
    THEN (IF in_list THEN <<>> ELSE <<Chars("<ul>")>>) \o <<ListItem(lines[k])>>
         \o FormattedLines(lines, k + 1, TRUE)
    ELSE (IF in_list THEN <<Chars("</ul>")>> ELSE <<>>) \o <<lines[k]>>
         \o FormattedLines(lines, k + 1, FALSE)

\* Bullet points: split on '\\n', the loop, '\\n'.join
NewsletterBullets(content) ==
    Join(FormattedLines(SplitOn(content, BackslashN), 1, FALSE), BackslashN)

\* One paragraph of the paragraph loop: nothing, the paragraph itself, or
\* the paragraph in <p>
FormattedParagraph(para0) ==
    The({ IF para = <<>> THEN <<>>
          ELSE IF \/ para[1] = "<" /\ para[Len(para)] = ">"
                  \/ Contains(para, Chars("<h"))
                  \/ Contains(para, Chars("<ul>"))
                  \/ Contains(para, Chars("<hr>"))
          THEN <<para>>
          ELSE <<Chars("<p>") \o para \o Chars("</p>")>>
          : para \in { Strip(para0) } })

RECURSIVE FormattedParagraphs(_, _)
FormattedParagraphs(paragraphs, k) ==
    IF k > Len(paragraphs) THEN <<>>
    ELSE FormattedParagraph(paragraphs[k]) \o FormattedParagraphs(paragraphs, k + 1)

\* Paragraphs: split on '\\n\\n', the loop, '\\n'.join
NewsletterParagraphs(content) ==
    Join(FormattedParagraphs(SplitOn(content, BackslashN \o BackslashN), 1), BackslashN)

\* The length of a match of r'<p>\\s*</p>' at position p of s: <p>, a
\* backslash, any number of s, </p>; 0 when there is none
EmptyParagraphAt(s, p) ==
    IF ~StartsAt(s, p, Chars("<p>") \o <<Backslash>>) THEN 0
    ELSE The({ IF StartsAt(s, e, Chars("</p>")) THEN e + 4 - p ELSE 0
               : e \in { Least({ j \in (p + 4)..(Len(s) + 1) : j = Len(s) + 1 \/ s[j] # "s" }) } })

\* re.sub(r'<p>\\s*</p>', '', content)
RECURSIVE NewsletterCleanUpFrom(_, _)
NewsletterCleanUpFrom(s, start) ==
    The({ IF p = 0 THEN SubSeq(s, start, Len(s))
          ELSE SubSeq(s, start, p - 1) \o NewsletterCleanUpFrom(s, p + EmptyParagraphAt(s, p))
          : p \in { Least({ i \in start..Len(s) : EmptyParagraphAt(s, i) > 0 }) } })

NewsletterCleanUp(s0) == The({ NewsletterCleanUpFrom(s, 1) : s \in {s0} })

\* The text that the page is built around: every step before the return
NewsletterBody(content) ==
    NewsletterCleanUp(
      NewsletterParagraphs(
        Replace(NewsletterBullets(NewsletterBold(NewsletterHeaders(content))),
                Chars("---"), Chars("<hr>"))))

\* os.getenv('GITHUB_REPOSITORY', 'your-repo')
Repositories == { Chars("your-repo"), Chars("jsnider89/ai-market-newsletter") }

\* The literal parts of the returned f-string
PageHead ==
    Chars("\n        <!DOCTYPE html>\n        <html>\n        <head>\n            <meta charset=\"UTF-8\">\n            <style>\n                body { \n                    font-family: -apple-system, BlinkMacSystemFont, 'Segoe UI', Roboto, sans-serif;\n                    line-height: 1.6;\n                    color: #333;\n                    max-width: 900px;\n                    margin: 0 auto;\n                    padding: 20px;\n                    background-color: #f9f9f9;\n                }\n                .container {\n                    background-color: white;\n                    padding: 30px;\n                    border-radius: 8px;\n                    box-shadow: 0 2px 10px rgba(0,0,0,0.1);\n                }\n                h1 { \n                    color: #2c3e50; \n                    border-bottom: 3px solid #3498db; \n                    padding-bottom: 15px;\n                    text-align: center;\n                    margin-bottom: 30px;\n                }\n                h2 { \n                    color: #34495e; \n                    margin-top: 40px;\n                    margin-bottom: 20px;\n                    padding: 15px;\n                    background: linear-gradient(135deg, #667eea 0%, #764ba2 100%);\n                    color: white;\n                    border-radius: 8px;\n                    text-align: center;\n                    font-size: 1.3em;\n                }\n                h3 { \n                    color: #7f8c8d; \n                    margin-top: 25px;\n                    border-left: 4px solid #3498db;\n                    padding-left: 15px;\n                }\n                ul { \n                    margin: 15px 0; \n                    padding-left: 25px; \n                    background: #f8f9fa;\n                    padding: 15px 25px;\n                    border-radius: 5px;\n                    border-left: 4px solid #e9ecef;\n                }\n                li { \n                    margin: 10px 0; \n                    line-height: 1.5;\n                }\n                p { \n                    margin: 15px 0; \n                    line-height: 1.6;\n                }\n                hr { \n                    border: none; \n                    border-top: 3px solid #3498db; \n                    margin: 40px 0;\n                    opacity: 0.6;\n                }\n                .market-data {\n                    background: #e8f4fd;\n                    border: 1px solid #3498db;\n                    border-radius: 8px;\n                    padding: 20px;\n                    margin: 20px 0;\n                    font-family: monospace;\n                }\n                .footer { \n                    margin-top: 50px; \n                    padding-top: 25px; \n                    border-top: 2px solid #eee;\n                    font-size: 13px;\n                    color: #7f8c8d;\n                    text-align: center;\n                    background: #f8f9fa;\n                    padding: 20px;\n                    border-radius: 8px;\n                }\n                strong {\n                    color: #2c3e50;\n                }\n            </style>\n        </head>\n        <body>\n            <div class=\"container\">\n                ")

PageBeforeLink ==
    Chars("\n                \n                <div class=\"footer\">\n                    <p><strong>")
    \o <<"U+00F0">>
    \o <<"U+0178">>
    \o <<"U+0161">>
    \o <<"U+20AC">>
    \o Chars(" Real Data AI Market Analysis</strong></p>\n                    <p>Claude + ChatGPT analyzing live market data from Finnhub & Marketaux APIs</p>\n                    <p>Generated automatically via GitHub Actions</p>\n                    <p>Repository: <a href=\"https://github.com/")

PageInLink ==
    Chars("\" style=\"color: #3498db;\">")

PageBeforeStamp ==
    Chars("</a></p>\n                    <p>Generated at: ")

PageFoot ==
    Chars(" UTC</p>\n                </div>\n            </div>\n        </body>\n        </html>\n        ")

\* convert_markdown_to_html(content) of the newsletter, with the repository
\* name of the environment and the clock: the page it returns
NewsletterConvertMarkdownToHtml(content, repository, now) ==
    PageHead \o NewsletterBody(content)
    \o PageBeforeLink \o repository \o PageInLink \o repository
    \o PageBeforeStamp \o StampText(now) \o PageFoot

\* The lines of the texts that the newsletter's converter is run on
NewsletterLines ==
    { Chars("### Outlook"), Chars("## Markets today"), Chars("# Morning Market Summary"),
      Chars("Stocks rose."), Chars("**Gold** up"), Chars("* item"), Chars("---"), <<>>,
      Chars("a\\nb"), Chars("####") }

NewsletterTexts == { Join(ls, <<"\n">>) : ls \in SeqsUpTo(NewsletterLines, 2) }

InitNewsletterRender ==
    /\ hpc = "start"
    /\ h_text \in NewsletterTexts
    /\ h_scan = NoPass
    /\ h_html = <<>>

\* html_content = self.convert_markdown_to_html(ai_response)
NewsletterConvertCall ==
    /\ mode = "nl_render" /\ hpc = "start"
    /\ \E repository \in Repositories, now \in Clock :
        h_html' = NewsletterConvertMarkdownToHtml(h_text, repository, now)
    /\ hpc' = "done"
    /\ UNCHANGED <<h_text, h_scan>>
    /\ UNCHANGED <<mode, qvars, pvars, fvars, avars, rvars, prvars, nvars, cvars>>


(***************************************************************************)
(* RealDataAINewsletterBot.run_daily_summary (ai_newsletter.py), with      *)
(* generate_dual_summary and send_email_summary.  Every datetime.now() is  *)
(* a read of the clock, which never goes back.                             *)
(***************************************************************************)

\* The times the clock may show, in their order: around 14:00 and around
\* midnight
TimeTable ==
    << [day |-> Day(2025, 6, 30), hour |-> 13], [day |-> Day(2025, 6, 30), hour |-> 14],
       [day |-> Day(2025, 6, 30), hour |-> 23], [day |-> Day(2025, 7, 1), hour |-> 0] >>

\* The times a read of the clock may give after the time `last`
Later(last) == { t \in 1..Len(TimeTable) : t >= last }

\* current_hour == 11 or current_hour < 14
IsMorning(t) == TimeTable[t].hour = 11 \/ TimeTable[t].hour < 14

\* strftime('%B %d, %Y')
LongDateText(d) ==
    Chars(MonthNames[d.month]) \o Chars(" ") \o TwoDigits(d.day) \o Chars(", ")
    \o DecimalOf(d.year)

\* The literal parts of the f-string combined_summary
DualHead ==
    Chars("# ")

DualBeforeDate ==
    Chars(" - ")

DualBeforeData ==
    Chars("\n\n## ")
    \o <<"U+00F0">>
    \o <<"U+0178">>
    \o <<"U+201C">>
    \o <<"U+0160">>
    \o Chars(" Real Market Data Used\n\n**Current Market Snapshot:**\n")

DualBeforeClaude ==
    Chars("\n\n---\n\n## ")
    \o <<"U+00F0">>
    \o <<"U+0178">>
    \o <<"U+00A4">>
    \o <<"U+2013">>
    \o Chars(" Claude's Analysis\n\n")

DualBeforeChatgpt ==
    Chars("\n\n---\n\n## ")
    \o <<"U+00F0">>
    \o <<"U+0178">>
    \o <<"U+00A7">>
    \o <<"U+00A0">>
    \o Chars(" ChatGPT's Analysis\n\n")

DualFoot ==
    Chars("\n\n---\n\n## ")
    \o <<"U+00F0">>
    \o <<"U+0178">>
    \o <<"U+201C">>
    \o <<"U+0160">>
    \o Chars(" Data Sources\n\n- **Market Data**: Finnhub API (Real-time prices)\n- **Financial News**: Marketaux API (Last 12 hours)\n- **Economic Calendar**: Finnhub API (Today/Tomorrow)\n\nBoth AI models analyzed the same real market data above. Compare their interpretations and insights!\n")

\* The f-string combined_summary, filled
DualSummaryText(f) ==
    DualHead \o Chars(f.summary_type) \o DualBeforeDate \o LongDateText(TimeTable[f.date].day)
    \o DualBeforeData \o f.market_data
    \o DualBeforeClaude \o f.claude
    \o DualBeforeChatgpt \o f.chatgpt
    \o DualFoot

\* "Error" in dual_summary and len(dual_summary) < 500
IsAiError(f) ==
    \E text \in { DualSummaryText(f) } : Contains(text, Chars("Error")) /\ Len(text) < 500

\* What get_market_data may return to generate_dual_summary
NewsletterSnapshots ==
    { Chars("Unable to fetch market data"),
      Chars("Error fetching market data: Read timed out") }

\* What query_claude may return: the answer of the model, or the text of
\* its except clause
ClaudeResponses == { <<>>, Chars("Claude Error: overloaded") }

\* What query_chatgpt may return
ChatgptResponses ==
    { Chars("Error"),
      Chars("Stocks closed higher as investors weighed the latest inflation data and earnings.") }

NoDual == [summary_type |-> "", date |-> 0, market_data |-> <<>>, claude |-> <<>>, chatgpt |-> <<>>]
NoSubject == [emoji |-> "", date |-> 0]

InitNewsletterRun ==
    /\ rpc = "banner"
    /\ clock = 0 /\ banner_type = "" /\ prompt_kind = ""
    /\ dual_summary = NoDual /\ subject = NoSubject
    /\ mail_env = NoMailEnv /\ mail_log = <<>>
    /\ run_market_data = <<>>
    /\ run_result = "running"

\* run_daily_summary: current_hour = datetime.now().hour; summary_type for
\* the banner
DailyBanner ==
    /\ mode = "nl_run" /\ rpc = "banner"
    /\ \E t \in Later(clock) :
        /\ clock' = t
        /\ banner_type' = IF IsMorning(t) THEN "Morning" ELSE "Evening"
    /\ rpc' = "generate"
    /\ UNCHANGED <<prompt_kind, dual_summary, subject>>
    /\ UNCHANGED <<run_market_data, run_articles, run_feed_statuses, run_prompt, ai_analysis,
                   analysis_source, html_content, mail_env, email_sent, mail_log, run_calls,
                   run_result, summary>>
    /\ UNCHANGED <<mode, qvars, pvars, fvars, avars, hvars, prvars, cvars>>

\* dual_summary = self.generate_dual_summary(): its own read of the hour,
\* the data, the prompt variant and the title by that hour, the two
\* answers, and a read of the clock for the date of the title
GenerateDualSummary ==
    /\ mode = "nl_run" /\ rpc = "generate"
    /\ \E t \in Later(clock) :
        \E market_data \in NewsletterSnapshots, claude_response \in ClaudeResponses,
           chatgpt_response \in ChatgptResponses, title_time \in Later(t) :
            /\ run_market_data' = market_data
            /\ prompt_kind' = IF IsMorning(t) THEN "morning" ELSE "evening"
            /\ dual_summary' =
                [ summary_type |-> IF IsMorning(t) THEN "Morning Market Summary"
                                   ELSE "Evening Market Summary",
                  date |-> title_time, market_data |-> market_data,
                  claude |-> claude_response, chatgpt |-> chatgpt_response ]
            /\ clock' = title_time
    /\ rpc' = "check"
    /\ UNCHANGED <<banner_type, subject>>
    /\ UNCHANGED <<run_articles, run_feed_statuses, run_prompt, ai_analysis,
                   analysis_source, html_content, mail_env, email_sent, mail_log, run_calls,
                   run_result, summary>>
    /\ UNCHANGED <<mode, qvars, pvars, fvars, avars, hvars, prvars, cvars>>

\* if "Error" in dual_summary and len(dual_summary) < 500: return
DailyAiError ==
    /\ mode = "nl_run" /\ rpc = "check"
    /\ IsAiError(dual_summary)
    /\ run_result' = "returned"
    /\ rpc' = "done"
    /\ UNCHANGED nvars
    /\ UNCHANGED <<run_market_data, run_articles, run_feed_statuses, run_prompt, ai_analysis,
                   analysis_source, html_content, mail_env, email_sent, mail_log, run_calls,
                   summary>>
    /\ UNCHANGED <<mode, qvars, pvars, fvars, avars, hvars, prvars, cvars>>

\* send_email_summary without the mail settings: it returns before the
\* subject is written
SendEmailSummaryNoConfig ==
    /\ mode = "nl_run" /\ rpc = "check"
    /\ ~IsAiError(dual_summary)
    /\ \E env \in MailEnvs :
        /\ ~MailConfigured(env)
        /\ mail_env' = env
    /\ run_result' = "returned"
    /\ rpc' = "done"
    /\ UNCHANGED nvars
    /\ UNCHANGED <<run_market_data, run_articles, run_feed_statuses, run_prompt, ai_analysis,
                   analysis_source, html_content, email_sent, mail_log, run_calls, summary>>
    /\ UNCHANGED <<mode, qvars, pvars, fvars, avars, hvars, prvars, cvars>>

\* send_email_summary with the settings: its own read of the hour for the
\* subject, a read for the date of the subject, the page (which is
\* convert_markdown_to_html of `content`, stamped at page_time), and one
\* SMTP session inside the try block
SendEmailSummary ==
    /\ mode = "nl_run" /\ rpc = "check"
    /\ ~IsAiError(dual_summary)
    /\ \E env \in MailEnvs, o \in SmtpOutcomes :
        \E t \in Later(clock) : \E subject_time \in Later(t) : \E page_time \in Later(subject_time) :
            /\ MailConfigured(env)
            /\ mail_env' = env
            /\ subject' = [emoji |-> IF IsMorning(t) THEN "SUNRISE" ELSE "CITY_SUNSET",
                           date |-> subject_time]
            /\ mail_log' = Append(mail_log,
                                  [ host |-> "smtp.gmail.com", port |-> 587,
                                    sender |-> env.sender_email,
                                    recipient |-> env.recipient_email,
                                    subject |-> subject', content |-> dual_summary,
                                    page_time |-> page_time, outcome |-> o ])
            /\ email_sent' = (o = "accepted")
            /\ clock' = page_time
    /\ run_result' = "returned"
    /\ rpc' = "done"
    /\ UNCHANGED <<banner_type, prompt_kind, dual_summary>>
    /\ UNCHANGED <<run_market_data, run_articles, run_feed_statuses, run_prompt, ai_analysis,
                   analysis_source, html_content, run_calls, summary>>
    /\ UNCHANGED <<mode, qvars, pvars, fvars, avars, hvars, prvars, cvars>>


(***************************************************************************)
(* CleanMarketAggregator.parse_rss_feed and fetch_all_rss_feeds            *)
(* (clean_market_aggregator.py).  parse_rss_feed returns one string.       *)
(***************************************************************************)

\* most feeds of a configuration
MaxCleanFeeds == 2

\* self.rss_feeds as set by __init__: its leading pairs
CleanConfiguredFeeds ==
    << [name |-> "Federal Reserve - Commercial Paper",
        url |-> "https://www.federalreserve.gov/feeds/Data/CP_OUTST.xml"],
       [name |-> "Federal Reserve - Press Monetary",
        url |-> "https://www.federalreserve.gov/feeds/press_monetary.xml"],
       [name |-> "Fox News Latest", url |-> "https://feeds.feedburner.com/foxnews/latest"] >>

CleanFeedLists ==
    { SubSeq(CleanConfiguredFeeds, 1, n) : n \in 0..Min(MaxCleanFeeds, Len(CleanConfiguredFeeds)) }

kCdataOpen == <<"<", "!", "[", "c", "d", "a", "t", "a", "[">>
kCdataClose == <<"]", "]", ">">>

\* (?:\]\]>)?</name> at position e: the length it consumes, 0 when it does
\* not match there
CleanClosingLen(s, e, name) ==
    IF MatchAt(s, e, kCdataClose \o CloseOf(name))
    THEN Len(kCdataClose) + Len(CloseOf(name))
    ELSE IF MatchAt(s, e, CloseOf(name)) THEN Len(CloseOf(name))
    ELSE 0

\* <name[^>]*>(?:<!\[CDATA\[)?(.*?)(?:\]\]>)?</name> with "<name" at p,
\* re.DOTALL | re.IGNORECASE; from..to is group 1
CleanMatchElementAt(s, p, name) ==
    IF ~MatchAt(s, p, OpenOf(name)) THEN NoMatch
    ELSE The({ IF g = 0 THEN NoMatch
               ELSE The({ The({ IF e = 0 THEN NoMatch
                                ELSE [found |-> TRUE, from |-> b, to |-> e - 1,
                                      next |-> e + CleanClosingLen(s, e, name)]
                                : e \in { Least({ x \in b..(Len(s) + 1) :
                                                    CleanClosingLen(s, x, name) > 0 }) } })
                          : b \in { g + 1 + (IF MatchAt(s, g + 1, kCdataOpen)
                                             THEN Len(kCdataOpen) ELSE 0) } })
               : g \in { FindChar(s, p + Len(name) + 1, ">") } })

\* re.search of that pattern in s
CleanMatchElement(s0, name0) ==
    The({ The({ IF p = 0 THEN NoMatch ELSE CleanMatchElementAt(s, p, name)
                : p \in { Least({ q \in 1..Len(s) : CleanMatchElementAt(s, q, name).found }) } })
          : s \in {s0}, name \in {name0} })

\* title = "No title"; if title_match: strip, then remove the tags
CleanExtractTitle(item) ==
    The({ IF title_match.found
          THEN StripTags(Strip(Group1(item, title_match)))
          ELSE NoTitle
          : title_match \in { CleanMatchElement(item, kTitle) } })

\* The first pattern of desc_patterns that matches decides; then `break`
RECURSIVE CleanExtractDescriptionFrom(_, _)
CleanExtractDescriptionFrom(item, k) ==
    IF k > Len(DescPatterns) THEN <<>>
    ELSE The({ IF desc_match.found
               THEN Truncate(StripTags(Strip(Group1(item, desc_match))))
               ELSE CleanExtractDescriptionFrom(item, k + 1)
               : desc_match \in { CleanMatchElement(item, DescPatterns[k]) } })

\* One pass of the loop `for item in items[:5]`: the article appended for
\* `item`, if any
CleanArticleOf(item0) ==
    The({ IF Qualifies(title)
          THEN <<[title |-> title, description |-> CleanExtractDescriptionFrom(item, 1),
                  date |-> ExtractDate(item)]>>
          ELSE <<>>
          : item \in {item0}, title \in {CleanExtractTitle(item0)} })

RECURSIVE CleanArticlesFrom(_, _)
CleanArticlesFrom(items, k) ==
    IF k > Len(items) THEN <<>>
    ELSE CleanArticleOf(items[k]) \o CleanArticlesFrom(items, k + 1)

\* The list `articles` that parse_rss_feed builds from a response
CleanArticles(response) ==
    IF response.kind = "raise" \/ response.status_code # 200 THEN <<>>
    ELSE CleanArticlesFrom(Take(ExtractItems(response.text), ItemCap), 1)

\* The lines appended to result for article i
CleanArticleLines(i, article) ==
    << Chars("Article ") \o DecimalOf(i) \o Chars(":"),
       Chars("  Title: ") \o article.title >>
    \o (IF article.description # <<>> THEN <<Chars("  Summary: ") \o article.description>>
        ELSE <<>>)
    \o << Chars("  Date: ") \o article.date, <<>> >>

RECURSIVE CleanListedLines(_, _)
CleanListedLines(articles, i) ==
    IF i > Len(articles) THEN <<>>
    ELSE CleanArticleLines(i, articles[i]) \o CleanListedLines(articles, i + 1)

\* "\n".join(result) for a feed with articles
CleanResultText(source_name, articles) ==
    Join(<< <<"CHECK_MARK">> \o Chars(" ") \o Chars(source_name) \o Chars(" (")
            \o DecimalOf(Len(articles)) \o Chars(" articles):"),
            [k \in 1..60 |-> "-"] >>
         \o CleanListedLines(articles, 1), <<"\n">>)

\* parse_rss_feed(source_name, feed_url), given what the request does: the
\* string it returns
CleanParseRssFeed(source_name, response) ==
    IF response.kind = "raise"
    THEN <<"CROSS_MARK">> \o Chars(" ") \o Chars(source_name) \o Chars(": Error - ")
         \o Chars(response.err)
    ELSE IF response.status_code # 200
    THEN <<"CROSS_MARK">> \o Chars(" ") \o Chars(source_name) \o Chars(": HTTP ")
         \o DecimalOf(response.status_code)
    ELSE IF ExtractItems(response.text) = <<>>
    THEN <<"WARNING_SIGN", "VARIATION_SELECTOR">> \o Chars(" ") \o Chars(source_name)
         \o Chars(": No articles found in feed")
    ELSE The({ IF articles = <<>>
               THEN <<"WARNING_SIGN", "VARIATION_SELECTOR">> \o Chars(" ") \o Chars(source_name)
                    \o Chars(": Articles found but couldn't parse content")
               ELSE CleanResultText(source_name, articles)
               : articles \in { CleanArticles(response) } })

\* str.count(lit) from position start on: occurrences that do not overlap
RECURSIVE CountFrom(_, _, _)
CountFrom(s, start, lit) ==
    The({ IF p = 0 THEN 0 ELSE 1 + CountFrom(s, p + Len(lit), lit)
          : p \in { Least({ i \in start..(Len(s) - Len(lit) + 1) : StartsAt(s, i, lit) }) } })

\* result.count("Article ")
ArticleCount(result) == CountFrom(result, 1, Chars("Article "))

\* The feed documents of the clean parser
CleanDocs ==
    { <<>>,
      RenderFeed(<<TitledItem>>),
      RenderFeed(<<TitledItem, TitledEntry>>),
      RenderFeed(<<UntitledItem>>),
      El(kItem, El(kTitle, CdataOf(Chars("Fed holds rates")))
                \o El(kDescription, Chars("No change in June"))),
      El(kItem, El(kTitle, Chars("Article 5 of the treaty invoked"))
                \o El(kDescription, Chars("The Article was last used in 2001")))
      \o El(kItem, El(kTitle, Chars("Markets rally"))) }

\* What one feed request of the clean parser may do
CleanResponses ==
    { RaisedResponse("Read timed out"), HttpResponse(404, <<>>) }
    \cup { HttpResponse(200, doc) : doc \in CleanDocs }

\* The banner of the report: name, rule, start time, number of feeds, rule,
\* empty line
CleanReportHead(feeds, now) ==
    << <<"NEWSPAPER">> \o Chars(" RSS FEED AGGREGATION"),
       [k \in 1..80 |-> "="],
       Chars("Started: ") \o StampText(now) \o Chars(" UTC"),
       Chars("Total feeds to process: ") \o DecimalOf(Len(feeds)),
       [k \in 1..80 |-> "="],
       <<>> >>

\* The summary of the report
CleanReportSummary(feeds, successful, total, now) ==
    << [k \in 1..80 |-> "="],
       <<"BAR_CHART">> \o Chars(" RSS FEED SUMMARY"),
       [k \in 1..80 |-> "="],
       Chars("Successful feeds: ") \o DecimalOf(successful) \o Chars("/") \o DecimalOf(Len(feeds)),
       Chars("Total articles collected: ") \o DecimalOf(total),
       Chars("Completed: ") \o StampText(now) \o Chars(" UTC") >>

InitClean ==
    /\ rss_feeds \in CleanFeedLists
    /\ fpc = "start"
    /\ fi = 0
    /\ feed_log = <<>>
    /\ rss_results = <<>> /\ successful_feeds = 0 /\ total_articles = 0 /\ rss_report = <<>>

\* rss_results = [banner ...]; successful_feeds = 0; total_articles = 0
CleanFetchAllBegin ==
    /\ mode = "clean" /\ fpc = "start"
    /\ \E now \in Clock : rss_results' = CleanReportHead(rss_feeds, now)
    /\ successful_feeds' = 0 /\ total_articles' = 0
    /\ fpc' = "loop"
    /\ UNCHANGED <<rss_feeds, fi, all_articles, feed_statuses, feed_log, f_returned, rss_report>>
    /\ UNCHANGED <<mode, qvars, pvars, avars, hvars, rvars, prvars, nvars>>

\* One pass of `for source_name, feed_url in self.rss_feeds`
CleanFetchFeed ==
    /\ mode = "clean" /\ fpc = "loop"
    /\ fi < Len(rss_feeds)
    /\ \E response \in CleanResponses :
        \E result \in { CleanParseRssFeed(rss_feeds[fi + 1].name, response) } :
            /\ feed_log' = Append(feed_log, [source |-> rss_feeds[fi + 1].name,
                                             response |-> response])
            /\ rss_results' = rss_results \o <<result, <<>>>>
            /\ IF StartsAt(result, 1, <<"CHECK_MARK">>)
               THEN /\ successful_feeds' = successful_feeds + 1
                    /\ total_articles' = total_articles + ArticleCount(result)
               ELSE UNCHANGED <<successful_feeds, total_articles>>
    /\ fi' = fi + 1
    /\ UNCHANGED <<rss_feeds, fpc, all_articles, feed_statuses, f_returned, rss_report>>
    /\ UNCHANGED <<mode, qvars, pvars, avars, hvars, rvars, prvars, nvars>>

\* The summary, and return "\n".join(rss_results)
CleanFetchAllReturn ==
    /\ mode = "clean" /\ fpc = "loop"
    /\ fi = Len(rss_feeds)
    /\ \E now \in Clock :
        /\ rss_results' = rss_results
                          \o CleanReportSummary(rss_feeds, successful_feeds, total_articles, now)
        /\ rss_report' = Join(rss_results', <<"\n">>)
    /\ fpc' = "done"
    /\ UNCHANGED <<rss_feeds, fi, all_articles, feed_statuses, feed_log, f_returned,
                   successful_feeds, total_articles>>
    /\ UNCHANGED <<mode, qvars, pvars, avars, hvars, rvars, prvars, nvars>>


(***************************************************************************)
(* The specifications.  A behaviour exercises one routine; the variables   *)
(* of the others stay idle.                                                *)
(***************************************************************************)

IdleQuote ==
    /\ symbols = <<>> /\ api_key = "None" /\ qpc = "idle" /\ qi = 0
    /\ market_results = <<>> /\ quote_log = <<>> /\ quote_seen = NoOutcome
    /\ snapshot = NotReturned

IdleParse ==
    /\ ppc = "idle" /\ p_source = "" /\ p_feed = FeedOutcome("none", "", 0, <<>>)
    /\ p_response = NoResponse /\ p_result = NoResult

IdleFeeds ==
    /\ rss_feeds = <<>> /\ fpc = "idle" /\ fi = 0 /\ all_articles = <<>>
    /\ feed_statuses = <<>> /\ feed_log = <<>> /\ f_returned = NotReturnedFeeds

IdleAnalysis ==
    /\ openai_api_key = "None" /\ anthropic_api_key = "None" /\ apc = "idle"
    /\ a_prompt = <<>> /\ a_market_data = <<>> /\ analysis = PyNone
    /\ provider_log = <<>> /\ a_result = AnalysisPending

IdleRender == hpc = "idle" /\ h_text = <<>> /\ h_scan = NoPass /\ h_html = <<>>

IdleRun ==
    /\ rpc = "idle" /\ run_market_data = <<>> /\ run_articles = <<>> /\ run_feed_statuses = <<>>
    /\ run_prompt = NoPrompt /\ ai_analysis = PyNone /\ analysis_source = ""
    /\ html_content = NoHtml /\ mail_env = NoMailEnv
    /\ email_sent = FALSE /\ mail_log = <<>> /\ run_calls = <<>>
    /\ run_result = "running" /\ summary = NoSummary

IdlePrompt == prompt_day = NoDay /\ prompt_text = <<>>

IdleNewsletter ==
    /\ clock = 0 /\ banner_type = "" /\ prompt_kind = ""
    /\ dual_summary = NoDual /\ subject = NoSubject

IdleClean ==
    /\ rss_results = <<>> /\ successful_feeds = 0 /\ total_articles = 0 /\ rss_report = <<>>

IdleOthers == IdleNewsletter /\ IdleClean

\* The routines outside AIMarketAggregator's fetchers, at rest
IdleRest == IdleRun /\ IdlePrompt /\ IdleOthers

QuoteInit ==
    mode = "quote" /\ InitQuote /\ IdleParse /\ IdleFeeds /\ IdleAnalysis /\ IdleRender /\ IdleRest
ParseInit ==
    mode = "parse" /\ IdleQuote /\ InitParse /\ IdleFeeds /\ IdleAnalysis /\ IdleRender /\ IdleRest
FeedsInit ==
    mode = "feeds" /\ IdleQuote /\ IdleParse /\ InitFeeds /\ IdleAnalysis /\ IdleRender /\ IdleRest
AnalysisInit ==
    mode = "analysis" /\ IdleQuote /\ IdleParse /\ IdleFeeds /\ InitAnalysis /\ IdleRender /\ IdleRest

QuoteNext == FetchNoKey \/ FetchBegin \/ FetchQuote \/ FetchFinish
ParseNext == ParseCall
FeedsNext == FetchAllBegin \/ FetchFeed \/ FetchAllReturn
\* self.symbols is set; fetch_market_data is not running
QuoteAtRest ==
    /\ symbols = ConfiguredSymbols /\ api_key = "None" /\ qpc = "idle" /\ qi = 0
    /\ market_results = <<>> /\ quote_log = <<>> /\ quote_seen = NoOutcome
    /\ snapshot = NotReturned

RenderInit ==
    mode = "render" /\ QuoteAtRest /\ IdleParse /\ IdleFeeds /\ IdleAnalysis /\ InitRender /\ IdleRest

RenderNext == ConvertCall

\* The object after __init__ and the environment of one run: the symbols
\* and feeds and the quote key
RunInit ==
    /\ mode = "run"
    /\ symbols = RunSymbols /\ api_key \in {"None", "finnhub-key"} /\ qpc = "idle" /\ qi = 0
    /\ market_results = <<>> /\ quote_log = <<>> /\ quote_seen = NoOutcome
    /\ snapshot = NotReturned
    /\ IdleParse
    /\ rss_feeds = RunFeeds /\ fpc = "idle" /\ fi = 0 /\ all_articles = <<>>
    /\ feed_statuses = <<>> /\ feed_log = <<>> /\ f_returned = NotReturnedFeeds
    /\ IdleAnalysis
    /\ IdleRender
    /\ InitRun
    /\ IdlePrompt /\ IdleOthers

\* The object and the quote key before the placeholder path
BasicInit ==
    /\ mode = "basic"
    /\ qpc = "idle" /\ qi = 0 /\ market_results = <<>> /\ quote_log = <<>>
    /\ quote_seen = NoOutcome /\ snapshot = NotReturned
    /\ IdleParse /\ IdleFeeds /\ IdleAnalysis /\ IdleRender
    /\ run_market_data = <<>> /\ run_articles = <<>> /\ run_feed_statuses = <<>>
    /\ run_prompt = NoPrompt /\ ai_analysis = PyNone /\ analysis_source = ""
    /\ html_content = NoHtml /\ mail_env = NoMailEnv
    /\ email_sent = FALSE /\ mail_log = <<>> /\ run_calls = <<>>
    /\ run_result = "running" /\ summary = NoSummary
    /\ IdlePrompt /\ IdleOthers
    /\ InitBasic

\* The feeds and the snapshot before ingestion and prompt building
PromptInit ==
    /\ mode = "prompt"
    /\ IdleQuote /\ IdleParse
    /\ fpc = "idle" /\ fi = 0 /\ all_articles = <<>> /\ feed_statuses = <<>>
    /\ feed_log = <<>> /\ f_returned = NotReturnedFeeds
    /\ IdleAnalysis /\ IdleRender
    /\ run_articles = <<>> /\ run_feed_statuses = <<>>
    /\ run_prompt = NoPrompt /\ ai_analysis = PyNone /\ analysis_source = ""
    /\ html_content = NoHtml /\ mail_env = NoMailEnv
    /\ email_sent = FALSE /\ mail_log = <<>> /\ run_calls = <<>>
    /\ run_result = "running" /\ summary = NoSummary
    /\ IdleOthers
    /\ InitPrompt

PromptNext == PromptIngest \/ PromptBuild

\* The page and the environment before send_report_email
MailInit ==
    /\ mode = "mail"
    /\ IdleQuote /\ IdleParse /\ IdleFeeds /\ IdleAnalysis /\ IdleRender
    /\ run_market_data = <<>> /\ run_articles = <<>> /\ run_feed_statuses = <<>>
    /\ run_prompt = NoPrompt /\ ai_analysis = PyNone /\ analysis_source = ""
    /\ run_calls = <<>> /\ summary = NoSummary
    /\ IdlePrompt /\ IdleOthers
    /\ InitMail

MailNext == MailGetenv \/ MailMissingConfiguration \/ MailTrySession

\* The newsletter's get_market_data before its call
NewsletterQuoteInit ==
    /\ mode = "nl_quote"
    /\ InitNewsletterQuote
    /\ IdleParse /\ IdleFeeds /\ IdleAnalysis /\ IdleRender /\ IdleRest

NewsletterQuoteNext ==
    GetMarketDataNoKey \/ GetMarketDataBegin \/ GetMarketDataQuote \/ GetMarketDataReturn

\* The newsletter's convert_markdown_to_html before its call
NewsletterRenderInit ==
    /\ mode = "nl_render"
    /\ QuoteAtRest /\ IdleParse /\ IdleFeeds /\ IdleAnalysis /\ InitNewsletterRender /\ IdleRest

NewsletterRenderNext == NewsletterConvertCall

\* The newsletter before run_daily_summary
NewsletterRunInit ==
    /\ mode = "nl_run"
    /\ QuoteAtRest /\ IdleParse /\ IdleFeeds /\ IdleAnalysis /\ IdleRender
    /\ run_articles = <<>> /\ run_feed_statuses = <<>>
    /\ run_prompt = NoPrompt /\ ai_analysis = PyNone /\ analysis_source = ""
    /\ html_content = NoHtml /\ email_sent = FALSE
    /\ run_calls = <<>> /\ summary = NoSummary
    /\ IdlePrompt /\ IdleClean
    /\ InitNewsletterRun

NewsletterRunNext ==
    \/ DailyBanner \/ GenerateDualSummary \/ DailyAiError
    \/ SendEmailSummaryNoConfig \/ SendEmailSummary

\* The clean aggregator before fetch_all_rss_feeds
CleanInit ==
    /\ mode = "clean"
    /\ QuoteAtRest /\ IdleParse
    /\ all_articles = <<>> /\ feed_statuses = <<>> /\ f_returned = NotReturnedFeeds
    /\ IdleAnalysis /\ IdleRender /\ IdleRun /\ IdlePrompt /\ IdleNewsletter
    /\ InitClean

CleanNext == CleanFetchAllBegin \/ CleanFetchFeed \/ CleanFetchAllReturn

BasicNext == BasicFetchMarketData \/ BasicCreateBasicAnalysis \/ BasicConvert

RunNext ==
    \/ RunFetchMarketData \/ RunFetchAllRssFeeds \/ RunPreparePrompt \/ RunGetAiAnalysis
    \/ GetAiAnalysisOpenAi \/ GetAiAnalysisOpenAiRetry \/ GetAiAnalysisNoOpenAi
    \/ GetAiAnalysisAnthropic \/ GetAiAnalysisNoAnthropic \/ GetAiAnalysisBasic
    \/ RunAnalysisBack \/ RunFormatEmailHtml \/ RunSendReportEmailNoConfig
    \/ RunSendReportEmail \/ RunSummary
AnalysisNext ==
    \/ GetAiAnalysisOpenAi \/ GetAiAnalysisOpenAiRetry \/ GetAiAnalysisNoOpenAi
    \/ GetAiAnalysisAnthropic \/ GetAiAnalysisNoAnthropic \/ GetAiAnalysisBasic

Init ==
    \/ QuoteInit \/ ParseInit \/ FeedsInit \/ AnalysisInit \/ RenderInit \/ RunInit
    \/ BasicInit \/ PromptInit \/ MailInit \/ NewsletterQuoteInit
    \/ NewsletterRenderInit \/ NewsletterRunInit \/ CleanInit
Next ==
    \/ QuoteNext \/ ParseNext \/ FeedsNext \/ AnalysisNext \/ RenderNext \/ RunNext
    \/ BasicNext \/ PromptNext \/ MailNext \/ NewsletterQuoteNext
    \/ NewsletterRenderNext \/ NewsletterRunNext \/ CleanNext

\* fetch_market_data on its own
SpecQuote == QuoteInit /\ [][QuoteNext]_vars
\* one call of parse_rss_feed on its own
SpecParse == ParseInit /\ [][ParseNext]_vars
\* fetch_all_rss_feeds on its own
SpecFeeds == FeedsInit /\ [][FeedsNext]_vars
\* get_ai_analysis on its own
SpecAnalysis == AnalysisInit /\ [][AnalysisNext]_vars
\* one call of convert_markdown_to_html on its own
SpecRender == RenderInit /\ [][RenderNext]_vars
\* a whole run
SpecRun == RunInit /\ [][RunNext]_vars
\* the placeholder path: snapshot, placeholder, rendering
SpecBasic == BasicInit /\ [][BasicNext]_vars
\* ingestion followed by prompt building
SpecPrompt == PromptInit /\ [][PromptNext]_vars
\* send_report_email
SpecMail == MailInit /\ [][MailNext]_vars
\* the newsletter's get_market_data
SpecNewsletterQuote == NewsletterQuoteInit /\ [][NewsletterQuoteNext]_vars
\* the newsletter's convert_markdown_to_html
SpecNewsletterRender == NewsletterRenderInit /\ [][NewsletterRenderNext]_vars
\* the newsletter's run_daily_summary
SpecNewsletterRun == NewsletterRunInit /\ [][NewsletterRunNext]_vars
\* the clean aggregator's fetch_all_rss_feeds
SpecClean == CleanInit /\ [][CleanNext]_vars
\* any of the routines
Spec == Init /\ [][Next]_vars


(***************************************************************************)
(* Properties of the Quote Snapshot Fetcher                                *)
(***************************************************************************)

\* The rows of a snapshot that stand for a symbol
IsDataRow(l) == l.kind \in {"price", "nodata", "error"}
DataRows(lines) == SelectSeq(lines, IsDataRow)

\* C1: with a quote credential configured, the snapshot of a symbol list of
\* length N holds exactly N data rows, row i for symbol i, whatever each
\* request did (price, no price, error); while the loop runs, the rows so far
\* are those of the symbols already passed.
C1_RowPerSymbol ==
    (mode = "quote" /\ api_key \notin {"None", ""}) =>
        /\ qpc = "loop" =>
              /\ Len(DataRows(market_results)) = qi
              /\ \A i \in 1..qi : DataRows(market_results)[i].symbol = symbols[i]
        /\ qpc = "done" =>
              /\ ~snapshot.raised
              /\ Len(DataRows(snapshot.lines)) = Len(symbols)
              /\ \A i \in 1..Len(symbols) : DataRows(snapshot.lines)[i].symbol = symbols[i]

\* C1's case: a finished snapshot of three symbols whose requests ended in
\* an error, in no data and in a price.
C1_Witness ==
    /\ mode = "quote" /\ qpc = "done" /\ Len(symbols) >= 3
    /\ Len(snapshot.lines) >= 5
    /\ snapshot.lines[3].kind = "error"
    /\ snapshot.lines[4].kind = "nodata"
    /\ snapshot.lines[5].kind = "price"

\* The row the last pass of the loop appended: the banner and the rule come
\* before the rows.
LastRow == market_results[qi + 2]

\* C2: the row of a symbol follows from that symbol's own outcome alone: a
\* response with 'c' present and not null gives a price row, marked up when
\* the change (missing or null counts as 0) is >= 0 and down when it is < 0;
\* 'c' absent or null gives the no-data row; a request that raises gives the
\* error row with the error's text; and the loop goes on to the next symbol.
C2_RowFromOwnOutcome ==
    (mode = "quote" /\ qi >= 1 /\ ~snapshot.raised) =>
        /\ LastRow.symbol = symbols[qi]
        /\ (quote_seen.kind = "json" /\ quote_seen.data.c.t = "num") =>
              /\ LastRow.kind = "price"
              /\ LastRow.current = quote_seen.data.c.v
              /\ LastRow.change =
                    (IF quote_seen.data.d.t = "num" THEN quote_seen.data.d.v ELSE 0)
              /\ LastRow.change >= 0 => LastRow.direction = "GREEN_CIRCLE"
              /\ LastRow.change < 0 => LastRow.direction = "RED_CIRCLE"
        /\ (quote_seen.kind = "json" /\ quote_seen.data.c.t \in {"absent", "null"}) =>
              /\ LastRow.kind = "nodata"
              /\ LastRow.text = "No data available"
        /\ quote_seen.kind \in {"raise", "badjson", "badshape"} =>
              /\ LastRow.kind = "error"
              /\ LastRow.text = quote_seen.err
        /\ qpc = "done" => qi = Len(symbols)

\* C2's case: after a symbol whose request raised, the next symbol got a
\* price row with an unchanged price (change null), marked up.
C2_Witness ==
    /\ mode = "quote" /\ qi >= 2
    /\ market_results[qi + 1].kind = "error"
    /\ quote_seen.kind = "json" /\ quote_seen.data.c.t = "num"
    /\ quote_seen.data.d.t = "null"
    /\ LastRow.kind = "price" /\ LastRow.direction = "GREEN_CIRCLE"

\* C3: fetch_market_data never raises, and without a quote credential
\* (unset, or the empty string) it returns the single explanatory line and
\* issues no quote request.
C3_NeverRaisesNoKeyNoRequests ==
    mode = "quote" =>
        /\ ~snapshot.raised
        /\ api_key \in {"None", ""} =>
              /\ quote_log = <<>>
              /\ qpc = "done" => snapshot = Returned(<<NoKeyLine>>)

\* C3's case: the fetcher has returned, no credential (the empty string)
\* and a non-empty symbol list.
C3_Witness ==
    /\ mode = "quote" /\ qpc = "done"
    /\ api_key = "" /\ Len(symbols) >= 1
    /\ snapshot.lines = <<NoKeyLine>>


(***************************************************************************)
(* Properties of the Feed Ingester                                         *)
(***************************************************************************)

\* The call of parse_rss_feed has returned for a document served with 200.
Parsed200 ==
    mode = "parse" /\ ppc = "done" /\ p_feed.kind = "http" /\ p_feed.status_code = 200

HasWrap(blocks, wrap) == \E i \in 1..Len(blocks) : blocks[i].wrap = wrap

\* The title kinds that carry the text TitleText(i), possibly inside markup
\* or white space
TextTitleKinds == {"plain", "markup", "padded", "upper"}

\* The text of the description element that the patterns select, with its
\* markup and surrounding white space taken away: what the feed's author
\* wrote as the description.
DescPlain(kind, i) ==
    CASE kind = "none" -> <<>>
      [] kind = "description" -> ShortText(i)
      [] kind = "summary" -> SummaryText(i)
      [] kind = "content" -> ContentText(i)
      [] kind = "empty_then_summary" -> <<>>
      [] kind = "summary_then_description" -> ShortText(i)
      [] kind = "markup" -> ShortText(i)
      [] kind = "at_limit" -> LongText(DescLimit)
      [] kind = "over_limit" -> LongText(DescLimit + 1)
      [] kind = "markup_over_raw" -> LongText(DescLimit - 1)
      [] kind = "padded_at_limit" -> LongText(DescLimit)
      [] kind = "content_then_summary" -> SummaryText(i)
      [] kind = "blank_summary_then_content" -> <<>>
      [] kind = "all_three" -> ShortText(i)

\* The blocks with an extractable title: the title element carries a text.
Titled(blocks) == { i \in 1..Len(blocks) : blocks[i].title \in TextTitleKinds }

\* C4: for every source and every document, parse_rss_feed returns at most 5
\* articles, and every returned article has a title that is not empty and is
\* not the sentinel "No title".
C4_AtMostFiveTitled ==
    (mode = "parse" /\ ppc = "done") =>
        /\ Len(p_result.articles) <= 5
        /\ \A i \in 1..Len(p_result.articles) :
              /\ p_result.articles[i].title # <<>>
              /\ p_result.articles[i].title # <<"N", "o", " ", "t", "i", "t", "l", "e">>

\* C4's case: a document of six titled item blocks has been parsed and five
\* articles came back.
C4_Witness ==
    /\ Parsed200
    /\ Len(p_feed.blocks) = 6 /\ Titled(p_feed.blocks) = 1..6
    /\ Len(p_result.articles) = 5

\* C5: the cap selects the first 5 qualifying entries: a feed with at least 5
\* titled entries yields exactly 5 articles, also when untitled entries stand
\* among the first 5 entry blocks.
C5_FirstFiveQualifying ==
    ( /\ Parsed200
      /\ \A i \in 1..Len(p_feed.blocks) : p_feed.blocks[i].wrap = "item"
      /\ Cardinality(Titled(p_feed.blocks)) >= 5 )
    => Len(p_result.articles) = 5

\* What parse_rss_feed makes of the description `d` that a feed's author
\* wrote, by the truncation law
LawOf(d) == IF Len(d) > 300 THEN SubSeq(d, 1, 300) \o <<".", ".", ".">> ELSE d

\* C6: a description whose length after tag stripping is greater than 300
\* becomes its first 300 characters followed by "..." (length 303); a
\* description of length <= 300 is passed through unchanged.
C6_TruncationLaw ==
    (Parsed200 /\ Len(p_result.articles) = Len(p_feed.blocks)) =>
        \A i \in 1..Len(p_feed.blocks) :
            /\ p_result.articles[i].description = LawOf(DescPlain(p_feed.blocks[i].desc, i))
            /\ Len(DescPlain(p_feed.blocks[i].desc, i)) > 300
                  => Len(p_result.articles[i].description) = 303

\* C6's case: an entry whose description has 301 characters was parsed into
\* an article with a description of 303 characters.
C6_Witness ==
    /\ Parsed200
    /\ Len(p_feed.blocks) = 1 /\ p_feed.blocks[1].desc = "over_limit"
    /\ Len(p_result.articles) = 1
    /\ Len(p_result.articles[1].description) = 303

\* C10: entries come from the "item" regions, and from the "entry" regions
\* only when the document has no "item" region: with an item region every
\* article is the article of an item block; without one the articles are
\* those of the entry blocks; a document with neither gives the warning
\* status and no article.
C10_ItemFirstThenEntry ==
    Parsed200 =>
        /\ HasWrap(p_feed.blocks, "item") =>
              \A k \in 1..Len(p_result.articles) :
                  \E i \in 1..Len(p_feed.blocks) :
                      /\ p_feed.blocks[i].wrap = "item"
                      /\ p_result.articles[k].title = TitleText(i)
        /\ ~HasWrap(p_feed.blocks, "item") =>
              /\ \A k \in 1..Len(p_result.articles) :
                    \E i \in 1..Len(p_feed.blocks) :
                        /\ p_feed.blocks[i].wrap = "entry"
                        /\ p_result.articles[k].title = TitleText(i)
              /\ (\E i \in Titled(p_feed.blocks) : i <= 5) => p_result.articles # <<>>
        /\ p_feed.blocks = <<>> =>
              /\ p_result.articles = <<>>
              /\ p_result.status.mark = "WARNING"
              /\ p_result.status.detail = "No articles found in feed"
              /\ p_result.status.source = p_source

\* C10's case: a titled entry block followed by a titled item block; the
\* one article is the item's.
C10_Witness ==
    /\ Parsed200
    /\ Len(p_feed.blocks) = 2
    /\ p_feed.blocks[1].wrap = "entry" /\ p_feed.blocks[1].title = "plain"
    /\ p_feed.blocks[2].wrap = "item" /\ p_feed.blocks[2].title = "plain"
    /\ Len(p_result.articles) = 1
    /\ p_result.articles[1].title = TitleText(2)

\* The blocks of a document that the feed's format selects (the item blocks,
\* or the entry blocks when there is no item block), in document order.
SelectedBlocks(blocks) ==
    SelectSeq([i \in 1..Len(blocks) |-> i],
              LAMBDA i : blocks[i].wrap = (IF HasWrap(blocks, "item") THEN "item" ELSE "entry"))

\* The titles of the articles a source's answer stands for.
OwnTitles(o) ==
    IF o.kind # "http" \/ o.status_code # 200 THEN <<>>
    ELSE [k \in 1..Len(SelectSeq(SubSeq(SelectedBlocks(o.blocks), 1,
                                         Min(5, Len(SelectedBlocks(o.blocks)))),
                                  LAMBDA i : i \in Titled(o.blocks)))
            |-> TitleText(SelectSeq(SubSeq(SelectedBlocks(o.blocks), 1,
                                           Min(5, Len(SelectedBlocks(o.blocks)))),
                                    LAMBDA i : i \in Titled(o.blocks))[k])]

\* The (title, source) pairs of the articles of the first n requests of the
\* log, source after source.
RECURSIVE OwnArticles(_)
OwnArticles(n) ==
    IF n = 0 THEN <<>>
    ELSE OwnArticles(n - 1)
         \o [k \in 1..Len(OwnTitles(feed_log[n].outcome))
                |-> <<OwnTitles(feed_log[n].outcome)[k], rss_feeds[n].name>>]

\* C8: a feed request answered with a status other than 200 gives the status
\* line "CROSS_MARK <source name>: HTTP <status>" and no article for that
\* source, and fetch_all_rss_feeds goes on to the next source.
C8_HttpErrorStatusLine ==
    mode = "feeds" =>
        /\ \A i \in 1..Len(feed_log) :
              (feed_log[i].outcome.kind = "http" /\ feed_log[i].outcome.status_code # 200) =>
                  /\ feed_statuses[i] =
                        [mark |-> "CROSS_MARK", source |-> rss_feeds[i].name,
                         detail |-> "HTTP", n |-> feed_log[i].outcome.status_code, err |-> ""]
                  /\ feed_log[i].result.articles = <<>>
                  /\ \A k \in 1..Len(all_articles) : all_articles[k].source # rss_feeds[i].name
        /\ fpc = "done" => Len(feed_log) = Len(rss_feeds)

\* C8's case: the first source answered 404 with a document that holds a
\* titled item, and the run went on: the second source gave articles.
C8_Witness ==
    /\ mode = "feeds" /\ fpc = "done" /\ Len(feed_log) >= 2
    /\ feed_log[1].outcome.kind = "http" /\ feed_log[1].outcome.status_code = 404
    /\ feed_log[1].outcome.blocks # <<>>
    /\ feed_statuses[1].detail = "HTTP"
    /\ feed_log[2].result.articles # <<>>

\* C9: fetch_all_rss_feeds requests every configured feed once, in
\* configuration order, returns one status line per source (status i is
\* source i's) and the concatenation of the per-source article lists in that
\* order; every article carries its own source's name, and what one source
\* did changes neither the articles nor the status of another.
C9_OnePassPerSource ==
    mode = "feeds" =>
        /\ Len(feed_log) = fi
        /\ Len(feed_statuses) = fi
        /\ \A i \in 1..fi :
              /\ feed_log[i].url = rss_feeds[i].url
              /\ feed_statuses[i].source = rss_feeds[i].name
              /\ feed_statuses[i].mark =
                    (IF feed_log[i].outcome.kind = "raise" THEN "CROSS_MARK"
                     ELSE IF feed_log[i].outcome.status_code # 200 THEN "CROSS_MARK"
                     ELSE IF feed_log[i].outcome.blocks = <<>> THEN "WARNING"
                     ELSE "CHECK_MARK")
              /\ feed_statuses[i].mark = "CHECK_MARK"
                    => feed_statuses[i].n = Len(OwnTitles(feed_log[i].outcome))
        /\ [k \in 1..Len(all_articles) |-> <<all_articles[k].title, all_articles[k].source>>]
              = OwnArticles(fi)
        /\ fpc = "done" =>
              /\ fi = Len(rss_feeds)
              /\ f_returned =
                    [returned |-> TRUE, articles |-> all_articles, statuses |-> feed_statuses]

\* C9's case: a finished run over three sources: the first raised, the
\* second gave articles, the third had no entries; the articles returned are
\* the second source's.
C9_Witness ==
    /\ mode = "feeds" /\ fpc = "done" /\ Len(rss_feeds) >= 3
    /\ feed_log[1].outcome.kind = "raise"
    /\ Len(feed_log[2].result.articles) = 2
    /\ feed_log[3].outcome.kind = "http" /\ feed_log[3].outcome.blocks = <<>>
    /\ Len(f_returned.articles) = 2
    /\ f_returned.articles[1].source = rss_feeds[2].name
    /\ Len(f_returned.statuses) = 3

\* C11: an entry whose title element holds a CDATA-wrapped text T (T not
\* empty, without markup) produces an article whose title is T: the wrapper
\* is stripped and the entry is kept.
C11_CdataTitleKept ==
    ( /\ Parsed200
      /\ Len(p_feed.blocks) = 1
      /\ p_feed.blocks[1].title = "cdata" )
    => /\ Len(p_result.articles) = 1
       /\ p_result.articles[1].title = TitleText(1)


(***************************************************************************)
(* Properties of the analysis step                                         *)
(***************************************************************************)

\* A credential that is not configured: unset, or set to the empty string
NotConfigured(k) == k \in {"None", ""}

\* What a provider did yields no usable result: a failure, None or an empty
\* text.
NoUsableResult(o) ==
    \/ o.kind # "http" \/ o.status_code # 200 \/ o.shape # "content"
    \/ o.content.t = "none"
    \/ (o.content.t = "str" /\ o.content.s = <<>>)

\* The positions of the requests to an endpoint in the record of requests
RequestsTo(endpoint) ==
    { i \in 1..Len(provider_log) : provider_log[i].endpoint = endpoint }

\* The placeholder's own sentence
PlaceholderNote == Chars("AI analysis unavailable. Please configure OPENAI_API_KEY or ANTHROPIC_API_KEY")

\* C12: with neither OPENAI_API_KEY nor ANTHROPIC_API_KEY configured,
\* get_ai_analysis contacts no provider and returns the static placeholder
\* text, which embeds the quote snapshot, with the label "Basic Analysis";
\* the body is not empty.
C12_NoCredentialsPlaceholder ==
    ( /\ mode = "analysis"
      /\ NotConfigured(openai_api_key) /\ NotConfigured(anthropic_api_key) )
    => /\ provider_log = <<>>
       /\ apc = "done" =>
            /\ a_result.state = "returned"
            /\ a_result.label = "Basic Analysis"
            /\ a_result.body.t = "str" /\ Len(a_result.body.s) > 0
            /\ Contains(a_result.body.s, PlaceholderNote)
            /\ Contains(a_result.body.s, a_market_data)

\* C12's case: get_ai_analysis has returned with one credential unset and
\* the other set to the empty string.
C12_Witness ==
    /\ mode = "analysis" /\ apc = "done"
    /\ openai_api_key = "" /\ anthropic_api_key = "None"
    /\ a_result.state = "returned" /\ a_result.label = "Basic Analysis"

\* C13: the fallback chain is ordered.  With its credential present OpenAI is
\* asked before Anthropic; Anthropic is asked only after OpenAI was passed
\* over or yielded no usable result, never after a usable one; the
\* placeholder is used only when no provider yielded a usable result.
C13_ChainOrder ==
    mode = "analysis" =>
        /\ \A i \in RequestsTo(AnthropicEndpoint) :
              /\ \A j \in 1..(i - 1) : provider_log[j].endpoint = OpenAiEndpoint
              /\ IF NotConfigured(openai_api_key) THEN i = 1
                 ELSE i > 1 /\ NoUsableResult(provider_log[i - 1].outcome)
        /\ (~NotConfigured(openai_api_key) /\ provider_log # <<>>)
              => provider_log[1].endpoint = OpenAiEndpoint
        /\ (a_result.state = "returned" /\ a_result.label = "Basic Analysis")
              => \A i \in 1..Len(provider_log) : NoUsableResult(provider_log[i].outcome)

\* C13's case: OpenAI answered with an empty text, then Anthropic was asked
\* and its text was returned.
C13_Witness ==
    /\ mode = "analysis" /\ apc = "done"
    /\ Len(provider_log) = 2
    /\ provider_log[1].endpoint = OpenAiEndpoint
    /\ provider_log[1].outcome.content = PyStr(<<>>) /\ provider_log[1].outcome.status_code = 200
    /\ provider_log[2].endpoint = AnthropicEndpoint
    /\ a_result.label = "Anthropic Claude"

\* The outcomes that C14 lists: a text, an empty or null content, an HTTP
\* error, an exception.
ListedOutcome(o) ==
    \/ o.kind = "raise"
    \/ o.kind = "http" /\ o.status_code # 200
    \/ o.kind = "http" /\ o.status_code = 200 /\ o.shape \in {"badjson", "badshape"}
    \/ o.kind = "http" /\ o.status_code = 200 /\ o.shape = "content"
         /\ o.content.t \in {"none", "str"}

\* C14: for every combination of credentials and of provider outcomes (a
\* text, empty or null content, HTTP error, exception) get_ai_analysis
\* returns a body text that is not empty.
C14_BodyNeverEmpty ==
    ( /\ mode = "analysis" /\ apc = "done"
      /\ \A i \in 1..Len(provider_log) : ListedOutcome(provider_log[i].outcome) )
    => /\ a_result.state = "returned"
       /\ a_result.body.t = "str"
       /\ Len(a_result.body.s) > 0

\* C14's case: both providers are configured, OpenAI answered 200 with an
\* empty content and the request to Anthropic raised; a body came back.
C14_Witness ==
    /\ mode = "analysis" /\ apc = "done"
    /\ Len(provider_log) = 2
    /\ provider_log[1].outcome.status_code = 200
    /\ provider_log[1].outcome.content = PyStr(<<>>)
    /\ provider_log[1].outcome.shape = "content"
    /\ provider_log[2].outcome.kind = "raise"
    /\ a_result.state = "returned" /\ Len(a_result.body.s) > 0

\* What the last request to an endpoint came back with
LastOutcome(endpoint) ==
    IF RequestsTo(endpoint) = {} THEN NoProviderOutcome
    ELSE provider_log[Greatest(RequestsTo(endpoint))].outcome

\* The returned body is the content that the endpoint's last response held
BodyFrom(endpoint) ==
    /\ RequestsTo(endpoint) # {}
    /\ ~NoUsableResult(LastOutcome(endpoint))
    /\ a_result.body = LastOutcome(endpoint).content

\* C15: the returned label names the producer of the returned body: the
\* OpenAI label exactly when the body is the OpenAI response, the Anthropic
\* label exactly when it is the Anthropic response, "Basic Analysis" exactly
\* when it is the static placeholder, also when a configured provider failed.
C15_LabelNamesProducer ==
    (mode = "analysis" /\ apc = "done" /\ a_result.state = "returned") =>
        /\ a_result.label \in {"OpenAI o4-mini (Enhanced)", "Anthropic Claude", "Basic Analysis"}
        /\ a_result.label = "OpenAI o4-mini (Enhanced)" <=> BodyFrom(OpenAiEndpoint)
        /\ a_result.label = "Anthropic Claude" <=> BodyFrom(AnthropicEndpoint)
        /\ a_result.label = "Basic Analysis"
             <=> ( /\ a_result.body.t = "str"
                   /\ Contains(a_result.body.s, PlaceholderNote)
                   /\ Contains(a_result.body.s, a_market_data)
                   /\ ~BodyFrom(OpenAiEndpoint) /\ ~BodyFrom(AnthropicEndpoint) )

\* C15's case: both providers are configured and both failed; the
\* placeholder came back.
C15_Witness ==
    /\ mode = "analysis" /\ apc = "done"
    /\ RequestsTo(OpenAiEndpoint) # {} /\ RequestsTo(AnthropicEndpoint) # {}
    /\ a_result.state = "returned" /\ a_result.label = "Basic Analysis"

MonoStyle == Chars("font-family: monospace")
ColourSpan == Chars("<span style=\"color:")

\* C19: when the analysis body holds no "MARKET PERFORMANCE" marker, the
\* ticker colouring pass changes nothing: the output is that of the bold,
\* heading, sources and paragraph transforms alone, no line is wrapped in a
\* monospace block and no direction marker in a colour span, also for lines
\* that hold a ticker symbol and a direction marker.
C19_NoMarkerNoColouring ==
    ( /\ mode = "render" /\ hpc = "done"
      /\ ~Contains(h_text, Chars("MARKET PERFORMANCE")) )
    => /\ h_scan.after = h_scan.before
       /\ h_html = FinishHtml(Bolded(h_text))
       /\ ~Contains(h_html, MonoStyle)
       /\ ~Contains(h_html, ColourSpan)

\* C19's case: a body without the marker whose lines are the snapshot's
\* banner ("... MARKET DATA") and a price row with ticker and direction
\* marker has been rendered.
C19_Witness ==
    /\ mode = "render" /\ hpc = "done"
    /\ ~Contains(h_text, Chars("MARKET PERFORMANCE"))
    /\ h_text = Join(<<LineText(BannerLine), QuoteRowUp>>, <<"\n">>)

\* A line that holds the marker, a section header, a configured ticker
IsMarkerLine(l) == Contains(l, Chars("MARKET PERFORMANCE"))
IsHeaderLine(l) ==
    \/ Contains(l, Chars("TOP MARKET & ECONOMY STORIES"))
    \/ Contains(l, Chars("GENERAL NEWS"))
    \/ Contains(l, Chars("Looking Ahead"))
NamesTicker(l) ==
    \E t \in {"QQQ", "SPY", "UUP", "IWM", "GLD", "COINBASE:BTCUSD", "MP"} : Contains(l, Chars(t))
NonBlank(l) == \E k \in 1..Len(l) : l[k] \notin {" ", "\t", "\n", "\r"}

\* Line i lies after a marker line with no section header between them
InMarketSection(lines, i) ==
    \E j \in 1..(i - 1) :
        /\ IsMarkerLine(lines[j])
        /\ \A k \in (j + 1)..(i - 1) : IsMarkerLine(lines[k]) \/ ~IsHeaderLine(lines[k])

\* The line scan is to rewrite line i
ToRewrite(lines, i) ==
    /\ NonBlank(lines[i]) /\ NamesTicker(lines[i])
    /\ ~IsMarkerLine(lines[i]) /\ ~IsHeaderLine(lines[i])
    /\ InMarketSection(lines, i)

\* C20: in the line scan a line is rewritten into a monospace block if and
\* only if it is not blank, holds a configured ticker symbol, is neither a
\* "MARKET PERFORMANCE" line nor a section header line, and lies after a
\* "MARKET PERFORMANCE" line with no section header between them; every
\* other line is emitted unchanged; number and order of lines are kept.
C20_RewrittenIffInMarketSection ==
    (mode = "render" /\ hpc = "done") =>
        IF h_scan.ran
        THEN /\ Len(h_scan.after) = Len(h_scan.before)
             /\ \A i \in 1..Len(h_scan.before) :
                   h_scan.after[i] =
                       IF ToRewrite(h_scan.before, i)
                       THEN Chars("<div style=\"font-family: monospace; font-size: 14px; margin: 5px 0;\">")
                            \o Coloured(h_scan.before[i]) \o Chars("</div>")
                       ELSE h_scan.before[i]
        ELSE /\ \A i \in 1..Len(SplitLines(h_text)) : ~ToRewrite(SplitLines(h_text), i)
             /\ ~Contains(h_html, MonoStyle)

\* C20's case: a price row after the marker line was rewritten and the same
\* row after a section header was emitted unchanged.
C20_Witness ==
    /\ mode = "render" /\ hpc = "done" /\ h_scan.ran
    /\ \E i, j \in 1..Len(h_scan.before) :
          /\ i < j
          /\ h_scan.before[j] = h_scan.before[i]
          /\ h_scan.after[i] # h_scan.before[i]
          /\ h_scan.after[j] = h_scan.before[j]
          /\ \E k \in (i + 1)..(j - 1) : IsHeaderLine(h_scan.before[k])

(***************************************************************************)
(* Properties of the Orchestrator                                          *)
(***************************************************************************)

\* How often run has called the stage `name`
CallsOf(name) == Cardinality({ k \in 1..Len(run_calls) : run_calls[k] = name })

\* C17: in every run send_report_email is invoked exactly once, and only
\* after the quote fetch, the feed ingestion, the prompt assembly, the
\* analysis step and the HTML rendering have all finished, whatever the
\* outcomes of those earlier stages were: the mail step is never called
\* twice, it is called only as the last of the six stages in their order, and
\* a run that has ended has called it.
C17_MailStepExactlyOnceAtTheEnd ==
    mode = "run" =>
        /\ CallsOf("send_report_email") <= 1
        /\ CallsOf("send_report_email") = 1 => run_calls = Stages
        /\ rpc = "done" => CallsOf("send_report_email") = 1

\* C18: no failure of an external collaborator (error status, malformed
\* response, time-out, raised exception) propagates out of run, and the run
\* always reaches its execution summary: no run ends with an exception, and
\* a run that has ended has printed the summary.
C18_NoFailureLeavesRun ==
    mode = "run" =>
        /\ run_result # "raised"
        /\ rpc = "done" => summary.printed

(***************************************************************************)
(* Properties of the description of an entry                               *)
(***************************************************************************)

\* A candidate element of an entry block: absent, or present with the text
\* its author wrote (markup and surrounding white space taken away)
Lacks == [present |-> FALSE, text |-> <<>>]
Has(text) == [present |-> TRUE, text |-> text]

Candidates(in_description, in_summary, in_content) ==
    [description |-> in_description, summary |-> in_summary, content |-> in_content]

\* The candidate elements that a block of each make-up carries
CandidatesOf(kind, i) ==
    CASE kind = "none" -> Candidates(Lacks, Lacks, Lacks)
      [] kind = "description" -> Candidates(Has(ShortText(i)), Lacks, Lacks)
      [] kind = "summary" -> Candidates(Lacks, Has(SummaryText(i)), Lacks)
      [] kind = "content" -> Candidates(Lacks, Lacks, Has(ContentText(i)))
      [] kind = "empty_then_summary" -> Candidates(Has(<<>>), Has(SummaryText(i)), Lacks)
      [] kind = "summary_then_description" ->
            Candidates(Has(ShortText(i)), Has(SummaryText(i)), Lacks)
      [] kind = "markup" -> Candidates(Has(ShortText(i)), Lacks, Lacks)
      [] kind = "at_limit" -> Candidates(Has(LongText(300)), Lacks, Lacks)
      [] kind = "over_limit" -> Candidates(Has(LongText(301)), Lacks, Lacks)
      [] kind = "markup_over_raw" -> Candidates(Has(LongText(299)), Lacks, Lacks)
      [] kind = "padded_at_limit" -> Candidates(Has(LongText(300)), Lacks, Lacks)
      [] kind = "content_then_summary" ->
            Candidates(Lacks, Has(SummaryText(i)), Has(ContentText(i)))
      [] kind = "blank_summary_then_content" ->
            Candidates(Lacks, Has(<<>>), Has(ContentText(i)))
      [] kind = "all_three" ->
            Candidates(Has(ShortText(i)), Has(SummaryText(i)), Has(ContentText(i)))

\* The text of the first candidate present, in the order description,
\* summary, content; the empty string when none is
FirstPresent(c) ==
    IF c.description.present THEN c.description.text
    ELSE IF c.summary.present THEN c.summary.text
    ELSE IF c.content.present THEN c.content.text
    ELSE <<>>

\* C23: the description of an entry comes from the first candidate tag, in
\* the order description, summary, content, that is present in the entry
\* block, wherever it stands in the block; once an earlier candidate is
\* present no later one is consulted, even when the earlier one yields an
\* empty text; with no candidate the description is the empty string, and
\* an entry with a title is kept whatever its candidates are.
C23_FirstPresentCandidate ==
    Parsed200 =>
        /\ Len(p_result.articles) = Len(p_feed.blocks) =>
              \A i \in 1..Len(p_feed.blocks) :
                  p_result.articles[i].description
                      = LawOf(FirstPresent(CandidatesOf(p_feed.blocks[i].desc, i)))
        /\ (Len(p_feed.blocks) = 1 /\ p_feed.blocks[1].title \in TextTitleKinds)
              => Len(p_result.articles) = 1

\* C23's case: an entry whose summary is blank and whose content has a text
\* was parsed into an article with the empty description.
C23_Witness ==
    /\ Parsed200
    /\ Len(p_feed.blocks) = 1 /\ p_feed.blocks[1].desc = "blank_summary_then_content"
    /\ Len(p_result.articles) = 1
    /\ p_result.articles[1].description = <<>>

(***************************************************************************)
(* Properties of the paragraphs of the rendered report                     *)
(***************************************************************************)

\* The positions of `html` where a paragraph is opened (<p> or <p ...>) and
\* where one is closed (</p>)
ParagraphOpens(html) ==
    { i \in 1..Len(html) : StartsAt(html, i, Chars("<p>")) \/ StartsAt(html, i, Chars("<p ")) }
ParagraphCloses(html) == { i \in 1..Len(html) : StartsAt(html, i, Chars("</p>")) }

\* Scanning left to right, every </p> finds a paragraph still open, and
\* none is left open at the end
BalancedParagraphs(html) ==
    \E opens \in { ParagraphOpens(html) } : \E closes \in { ParagraphCloses(html) } :
        /\ \A c \in closes :
              Cardinality({ o \in opens : o < c }) > Cardinality({ d \in closes : d < c })
        /\ Cardinality(opens) = Cardinality(closes)

\* C26: for every analysis body that contains no HTML of its own, the output
\* of convert_markdown_to_html has balanced paragraph tags, also for a
\* paragraph that is only a heading line, a heading line followed directly
\* by text, or a "Sources:" line standing alone.
C26_BalancedParagraphTags ==
    (mode = "render" /\ hpc = "done") => BalancedParagraphs(h_html)

(***************************************************************************)
(* Properties of the "Basic Analysis" path                                 *)
(***************************************************************************)

\* The four section headers of a report
HeaderPhrases == SectionHeaders \cup {Marker}

\* The rendering has ended and no error row of the snapshot holds a section
\* header in its text
PlaceholderRendered ==
    /\ mode = "basic" /\ rpc = "done"
    /\ \A k \in 1..Len(market_results) :
          market_results[k].kind = "error"
              => \A h \in HeaderPhrases : ~Contains(LineText(market_results[k]), h)

\* Where the monospace blocks of `html` begin
MonoStarts(html) == { i \in 1..Len(html) : StartsAt(html, i, MonoOpen) }

\* Where the stories header stands in `html`
StoriesAt(html) ==
    { i \in 1..Len(html) : StartsAt(html, i, Chars("TOP MARKET & ECONOMY STORIES")) }

\* C30: on the "Basic Analysis" path every one of the N per-symbol rows of the
\* embedded snapshot (price rows, "No data available" rows, error rows
\* without a section header in their text) is rendered as exactly one
\* monospace block, in symbol order, and no line after the "TOP MARKET &
\* ECONOMY STORIES" header is rendered as a monospace block: the blocks of
\* the page are as many as the rows, the k-th block is the k-th row, and
\* all of them stand before the stories header.
C30_RowsAreTheMonospaceBlocks ==
    PlaceholderRendered =>
        \E rows \in { DataRows(market_results) } : \E starts \in { MonoStarts(h_html) } :
            /\ Cardinality(starts) = Len(rows)
            /\ \A p \in starts :
                  \E k \in { Cardinality({ q \in starts : q < p }) + 1 } :
                      StartsAt(h_html, p, MonoBlock(LineText(rows[k])))
            /\ \A p \in starts : \A s \in StoriesAt(h_html) : p < s
            /\ StoriesAt(h_html) # {}

\* C30's case: a snapshot of two symbols, one with a quote and one with an
\* error, was rendered with two monospace blocks.
C30_Witness ==
    /\ PlaceholderRendered
    /\ Len(symbols) = 2
    /\ \E rows \in { DataRows(market_results) } :
          /\ Len(rows) = 2 /\ rows[1].kind = "price" /\ rows[2].kind = "error"
    /\ Cardinality(MonoStarts(h_html)) = 2

(***************************************************************************)
(* C21, C29: the prompt builder, alone and after the feed ingester.        *)
(***************************************************************************)

\* The day after each day of PromptDays, as the calendar has it, in the
\* form "%A, %B %d"
CalendarTomorrow(d) ==
    CASE d = Day(2025, 6, 30) -> Chars("Tuesday, July 01")
      [] d = Day(2025, 7, 1) -> Chars("Wednesday, July 02")
      [] d = Day(2025, 12, 31) -> Chars("Thursday, January 01")
      [] d = Day(2024, 2, 28) -> Chars("Thursday, February 29")
      [] d = Day(2025, 2, 28) -> Chars("Saturday, March 01")
      [] OTHER -> <<>>

\* The logs of the collaborators: quote provider, feed servers, analysis
\* providers, mail server
CollaboratorLogs == <<quote_log, feed_log, provider_log, mail_log>>

\* `text` begins with the text before the snapshot, then holds `snapshot_text`
\* character for character, then the heading of the news
EmbedsSnapshot(text, snapshot_text) ==
    /\ Len(text) >= Len(PromptIntro) + Len(snapshot_text) + Len(PromptNewsHeading)
    /\ SubSeq(text, 1, Len(PromptIntro)) = PromptIntro
    /\ SubSeq(text, Len(PromptIntro) + 1, Len(PromptIntro) + Len(snapshot_text)) = snapshot_text
    /\ SubSeq(text, Len(PromptIntro) + Len(snapshot_text) + 1,
              Len(PromptIntro) + Len(snapshot_text) + Len(PromptNewsHeading)) = PromptNewsHeading

\* `text` ends with the look-ahead heading naming `day_text`, and what
\* follows that heading
LooksAheadTo(text, day_text) ==
    \E tail \in { Chars("**LOOKING AHEAD - ") \o day_text \o PromptClosing } :
        /\ Len(text) >= Len(tail)
        /\ SubSeq(text, Len(text) - Len(tail) + 1, Len(text)) = tail

\* C21: prepare_ai_prompt_enhanced contacts no collaborator, returns a
\* prompt for every snapshot and every list of articles, the empty list
\* included; the prompt holds the snapshot verbatim and its look-ahead
\* heading names the day after the day on which it is built.
C21_PromptIsPureAssembly ==
    [][(mode = "prompt" /\ rpc = "build" /\ rpc' = "done")
       => /\ CollaboratorLogs' = CollaboratorLogs
          /\ prompt_text' # <<>>
          /\ EmbedsSnapshot(prompt_text', run_market_data)
          /\ LooksAheadTo(prompt_text', CalendarTomorrow(prompt_day'))]_vars

\* Reached: a prompt built on 31 December from no article at all, and one
\* built from articles
C21_Witness ==
    /\ mode = "prompt" /\ rpc = "done"
    /\ prompt_day = Day(2025, 12, 31)
    /\ run_articles = <<>>
    /\ run_prompt.tomorrow_str = Chars("Thursday, January 01")

\* Line `line` of articles_text is the header of a source
IsSourceHeader(line) == StartsAt(line, 1, Chars("\n=== "))

\* Line `line` of articles_text is the title of an article
IsTitleLine(line) == StartsAt(line, 1, Chars("Title: "))

\* The index of the header under which line i of `lines` stands (0: none)
HeaderAbove(lines, i) ==
    Greatest({ h \in 1..i : IsSourceHeader(lines[h]) })

\* The indexes of the titles listed under the header at line h
TitlesUnder(lines, h) ==
    { i \in 1..Len(lines) : IsTitleLine(lines[i]) /\ HeaderAbove(lines, i) = h }

\* The titles of `lines`, from top to bottom
TitleIndexes(lines) == SelectSeq([i \in 1..Len(lines) |-> i], LAMBDA i : IsTitleLine(lines[i]))

\* The header line of `source` announcing n articles
HeaderOf(source, n) ==
    Chars("\n=== ") \o Chars(source) \o Chars(" (") \o DecimalOf(n) \o Chars(" articles) ===")

\* The names of the feeds are pairwise distinct
DistinctNames(feeds) ==
    \A i, j \in 1..Len(feeds) : feeds[i].name = feeds[j].name => i = j

\* The k-th listed article of `lines` is `article`, under its own source,
\* whose header announces as many articles as are listed under it
ListedUnderOwnSource(lines, k, article) ==
    \E i \in { TitleIndexes(lines)[k] } :
        /\ lines[i] = Chars("Title: ") \o article.title
        /\ \E h \in { HeaderAbove(lines, i) } :
            /\ h > 0
            /\ lines[h] = HeaderOf(article.source, Cardinality(TitlesUnder(lines, h)))

\* The sources of the headers of `lines`, from top to bottom, are the
\* sources of `news` in the order of their first article
HeadersInFirstAppearanceOrder(lines, news) ==
    \E hs \in { SelectSeq(lines, IsSourceHeader) } :
        \E first \in { SelectSeq([k \in 1..Len(news) |-> k],
                                 LAMBDA k : \A j \in 1..(k - 1) : news[j].source # news[k].source) } :
            /\ Len(hs) = Len(first)
            /\ \A n \in 1..Len(hs) :
                StartsAt(hs[n], 1, Chars("\n=== ") \o Chars(news[first[n]].source) \o Chars(" ("))

\* C29: when the names of the feeds are pairwise distinct, the prompt lists
\* every ingested article once, in the order of ingestion, each under the
\* header of its own source; the headers stand in the order in which the
\* sources first appear; the count in each header and the "Total articles"
\* figure are the numbers of articles listed.
C29_EveryIngestedArticleListed ==
    (mode = "prompt" /\ rpc = "done" /\ DistinctNames(rss_feeds))
    => \E lines \in { run_prompt.articles_text } :
        /\ Len(TitleIndexes(lines)) = Len(run_articles)
        /\ \A k \in 1..Len(run_articles) : ListedUnderOwnSource(lines, k, run_articles[k])
        /\ HeadersInFirstAppearanceOrder(lines, run_articles)
        /\ run_prompt.total = Len(TitleIndexes(lines))
        /\ run_prompt.sources = Len(SelectSeq(lines, IsSourceHeader))
        /\ Contains(SubSeq(prompt_text, 1, Len(PromptIntro) + Len(run_market_data) + 80),
                    Chars("Total articles: ") \o DecimalOf(Len(TitleIndexes(lines))) \o Chars("\n"))

\* Reached: two sources, one of which delivered as many articles as the
\* ingester keeps of a feed
C29_Witness ==
    /\ mode = "prompt" /\ rpc = "done" /\ DistinctNames(rss_feeds)
    /\ Len(rss_feeds) = 2
    /\ Len(ArticlesBySource(run_articles, rss_feeds[1].name)) = ItemCap
    /\ Len(ArticlesBySource(run_articles, rss_feeds[2].name)) > 0

\* Two feeds under one name: the cut of the builder drops ingested articles
C29_SharedNameDropsArticles ==
    (mode = "prompt" /\ rpc = "done")
    => Len(TitleIndexes(run_prompt.articles_text)) = Len(run_articles)

(***************************************************************************)
(* C22: send_report_email.                                                 *)
(***************************************************************************)

\* One of the three mail settings is unset or empty
SettingMissing(env) ==
    \E k \in {"sender_email", "sender_password", "recipient_email"} : env[k] \in {"None", ""}

\* C22: when the sender address, the sender password or the recipient
\* address is missing, send_report_email returns False and has opened no
\* connection to the mail server; whatever the settings and the mail server
\* do, it returns True or False and does not raise.
C22_MissingMailSettingsNeverFatal ==
    (mode = "mail" /\ rpc = "done")
    => /\ run_result = "returned"
       /\ email_sent \in BOOLEAN
       /\ SettingMissing(mail_env) => (email_sent = FALSE /\ mail_log = <<>>)

\* Reached: only the password is missing and the call has returned; and,
\* in another behaviour, a session that the server refused
C22_Witness ==
    /\ mode = "mail" /\ rpc = "done"
    /\ mail_env = MailEnv("from@example.com", "None", "to@example.com")
    /\ run_result = "returned" /\ mail_log = <<>>

(***************************************************************************)
(* C24: the newsletter's get_market_data and an error at one symbol.       *)
(***************************************************************************)

\* C24: when get_market_data has returned with a key set, every symbol of
\* its list has been queried, and every row formatted for a symbol stands
\* in the returned snapshot, whatever happened at the other symbols.
C24_ErrorStaysWithItsSymbol ==
    (mode = "nl_quote" /\ qpc = "done" /\ ~NoKey(api_key))
    => /\ quote_log = symbols
       /\ \A k \in 1..Len(market_results) :
            \E j \in 1..Len(snapshot.lines) : snapshot.lines[j] = market_results[k]

\* Reached: two rows were formatted, the third request raised, the call
\* has returned
C24_ErrorAfterRows ==
    /\ mode = "nl_quote" /\ qpc = "done"
    /\ Len(market_results) = 2 /\ Len(quote_log) = 3
    /\ quote_seen.kind = "raise"

(***************************************************************************)
(* C25: the headers of the newsletter's convert_markdown_to_html.          *)
(***************************************************************************)

\* The page holds the heading text of `line` in the element `tag` when
\* `line` is a header of the level `marks`
HeaderKept(page, line, marks, tag) ==
    StartsAt(line, 1, marks \o <<" ">>)
    => Contains(page, <<"<">> \o tag \o <<">">> \o SubSeq(line, Len(marks) + 2, Len(line))
                      \o <<"<", "/">> \o tag \o <<">">>)

\* C25: every line "### T", "## T" or "# T" of the text is in the page as
\* an h3, h2 or h1 element whose content is T.
C25_HeadersKeepTheirText ==
    (mode = "nl_render" /\ hpc = "done")
    => \E lines \in { SplitLines(h_text) } :
        \A k \in 1..Len(lines) :
            /\ HeaderKept(h_html, lines[k], Chars("###"), Chars("h3"))
            /\ HeaderKept(h_html, lines[k], Chars("##"), Chars("h2"))
            /\ HeaderKept(h_html, lines[k], Chars("#"), Chars("h1"))

(***************************************************************************)
(* C27: the summary type within one run of run_daily_summary.              *)
(***************************************************************************)

\* The summary types decided so far in this run: by the banner, by the
\* prompt variant, by the title of the report, by the subject line
TypesDecided ==
    (IF banner_type = "" THEN {} ELSE {banner_type})
    \cup (IF prompt_kind = "" THEN {}
          ELSE {IF prompt_kind = "morning" THEN "Morning" ELSE "Evening"})
    \cup (IF dual_summary = NoDual THEN {}
          ELSE {IF dual_summary.summary_type = "Morning Market Summary" THEN "Morning"
                ELSE "Evening"})
    \cup (IF subject = NoSubject THEN {}
          ELSE {IF subject.emoji = "SUNRISE" THEN "Morning" ELSE "Evening"})

\* C27: within one run the banner, the prompt variant, the title of the
\* report and the subject line name the same summary type.
C27_SummaryTypeAgrees ==
    mode = "nl_run" => Cardinality(TypesDecided) <= 1

(***************************************************************************)
(* C28: the summary figures of the clean aggregator's fetch_all_rss_feeds. *)
(***************************************************************************)

\* The request of feed k ended with the success status
CleanSucceeded(k) ==
    StartsAt(CleanParseRssFeed(feed_log[k].source, feed_log[k].response), 1, <<"CHECK_MARK">>)

\* The number of articles extracted from the feeds 1..k that succeeded
RECURSIVE ExtractedUpTo(_)
ExtractedUpTo(k) ==
    IF k = 0 THEN 0
    ELSE ExtractedUpTo(k - 1)
         + (IF CleanSucceeded(k) THEN Len(CleanArticles(feed_log[k].response)) ELSE 0)

\* C28: in the returned report "Total articles collected" is the number of
\* articles extracted from the sources that succeeded, whatever the feeds
\* hold, and "Successful feeds" is the number of sources with at least one
\* extracted article.
C28_SummaryFiguresCountArticles ==
    (mode = "clean" /\ fpc = "done")
    => /\ \E k \in 1..Len(rss_results) :
            rss_results[k] = Chars("Total articles collected: ")
                             \o DecimalOf(ExtractedUpTo(Len(feed_log)))
       /\ \E k \in 1..Len(rss_results) :
            rss_results[k] = Chars("Successful feeds: ")
                \o DecimalOf(Cardinality({ j \in 1..Len(feed_log) :
                                             Len(CleanArticles(feed_log[j].response)) >= 1 }))
                \o Chars("/") \o DecimalOf(Len(rss_feeds))

\* The same without titles and descriptions that hold "Article "
C28_PlainTitlesCounted ==
    (mode = "clean" /\ fpc = "done"
     /\ \A j \in 1..Len(feed_log) : ~Contains(feed_log[j].response.text, Chars("Article ")))
    => C28_SummaryFiguresCountArticles

====
